---- MODULE Spec2Model ----
(***************************************************************************)
(* Verification model of the fitronix storage core:                        *)
(*   - DatabaseManager (src/src/services/database/DatabaseManager.ts):     *)
(*     lazy initialization, getConnection, backup import/export;           *)
(*   - WorkoutSessionStorage and ExerciseLibraryStorage: the repositories  *)
(*     over the tables declared in schema.ts.                              *)
(* Asynchronous methods are split at their await points: one action per    *)
(* synchronous segment, so overlapping calls interleave as they do on the  *)
(* JavaScript event loop.                                                  *)
(***************************************************************************)
EXTENDS Integers, Sequences, FiniteSets, TLC

\* ------------------------------------------------------------------ bounds
NProcs == 3

MaxCalls == 3

MaxFail == 1

MaxRequests == 2

MaxSessions == 2

MaxClock == 1

MaxLibrary == 3

MaxLen == 2

Procs == 1..NProcs

\* ------------------------------------------------------- program constants
SCHEMA_VERSION == 1

DefaultDbName == "fitronix_workout_tracker"

MemoryDbName == ":memory:"

\* the optional dbName argument of initialize: "" stands for `undefined`
DbNameArgs == {"", MemoryDbName}

VARIABLES
  db,                    \* DatabaseManager.db: 0 is null, otherwise a handle
  dbName,                \* DatabaseManager.dbName
  isInitialized,         \* DatabaseManager.isInitialized
  initializationPromise, \* DatabaseManager.initializationPromise: 0 is null
  promState,             \* promise id -> "pending" | "fulfilled" | "rejected"
  proc,                  \* per caller: the call in progress and its position
  calls,                 \* number of calls issued so far (also names promises)
  createCount,           \* calls of sqliteConnection.createConnection
  openCount,             \* calls of db.open
  openHandles,           \* handles whose open() has returned
  failCount,             \* plugin calls that failed
  tablesExist,           \* CREATE_TABLES_SQL has been executed on the store
  schemaVersionRows,     \* rows of table schema_version (their versions)
  outcomes,              \* finished calls: [op, status, handle]
  tables,                \* the rows of the four data tables of schema.ts
  inTransaction,         \* the connection has an open transaction
  txSnapshot,            \* the tables as they were at BEGIN TRANSACTION
  foreignKeys,           \* the engine enforces FOREIGN KEY clauses
  clock,                 \* the system clock, in milliseconds
  nextId,                \* source of generateUUID
  rcall                  \* per repository caller: the call in progress

\* the manager's state apart from the failure budget shared with the store
mgrState == <<db, dbName, isInitialized, initializationPromise, promState, proc,
              createCount, openCount, openHandles, tablesExist,
              schemaVersionRows, outcomes>>

storeVars == <<tables, inTransaction, txSnapshot, foreignKeys, clock, nextId,
               rcall>>

vars == <<mgrState, calls, failCount, storeVars>>

Idle == [op |-> "none", pc |-> "idle", prom |-> 0, handle |-> 0]

\* ------------------------------------------------------------ stored data
\* SQL NULL, and `undefined` of an optional field
Null == -999

\* names are sequences of code points: "BP", "bp" and the kana "be"
NameUpper == <<66, 80>>

NameLower == <<98, 112>>

NameKana == <<12505>>

Names == {NameUpper, NameLower, NameKana}

\* COLLATE NOCASE of SQLite: the 26 upper-case ASCII letters are folded to
\* lower case, every other code point is left alone
NoCase_Binary(name) == name

NoCase(name) ==
  [i \in DOMAIN name |-> IF name[i] \in 65..90 THEN name[i] + 32 ELSE name[i]]

EmptyTables ==
  [workout_sessions |-> {}, workout_exercises |-> {}, sets |-> {},
   exercises |-> {}]

\* the result of getSessionById for an id that is not stored
NoSession ==
  [found |-> FALSE, id |-> Null, date |-> Null, totalTime |-> Null,
   exercises |-> <<>>, createdAt |-> Null, updatedAt |-> Null]

NoInput == [none |-> TRUE]

IdleCall ==
  [op |-> "none", pc |-> "idle", status |-> "none", err |-> "none",
   failedAt |-> "none", id |-> Null, input |-> NoInput, now |-> Null,
   ex |-> 0, st |-> 0, exId |-> Null, existing |-> NoSession,
   result |-> NoSession, msg |-> <<>>, no |-> 0, before |-> EmptyTables,
   began |-> FALSE, doc |-> <<>>, list |-> <<>>, value |-> Null, table |-> 0]

\* the repositories are used by one caller, which awaits each call before it
\* makes the next
Callers == {1}

\* the store while only the manager is exercised
StoreIdleInit ==
  /\ tables = EmptyTables
  /\ inTransaction = FALSE
  /\ txSnapshot = EmptyTables
  /\ foreignKeys = TRUE
  /\ clock = 0
  /\ nextId = 1
  /\ rcall = [c \in Callers |-> IdleCall]

\* the manager after a completed initialization, as every repository method
\* finds it once getDb() has returned
MgrReadyInit ==
  /\ db = 1
  /\ dbName = DefaultDbName
  /\ isInitialized = TRUE
  /\ initializationPromise = 0
  /\ promState = <<>>
  /\ proc = [p \in Procs |-> Idle]
  /\ calls = 0
  /\ createCount = 1
  /\ openCount = 1
  /\ openHandles = {1}
  /\ failCount = 0
  /\ tablesExist = TRUE
  /\ schemaVersionRows = {SCHEMA_VERSION}
  /\ outcomes = {}

MgrInit ==
  /\ db = 0
  /\ dbName = DefaultDbName
  /\ isInitialized = FALSE
  /\ initializationPromise = 0
  /\ promState = <<>>
  /\ proc = [p \in Procs |-> Idle]
  /\ calls = 0
  /\ createCount = 0
  /\ openCount = 0
  /\ openHandles = {}
  /\ failCount = 0
  /\ tablesExist = FALSE
  /\ schemaVersionRows = {}
  /\ outcomes = {}

\* a manager that was never initialized; its store does not exist yet
FreshInit == MgrInit /\ StoreIdleInit

\* a plugin call returns normally (TRUE) or throws (FALSE)
PluginResult(ok) ==
  /\ ok \in BOOLEAN
  /\ (~ok) => failCount < MaxFail
  /\ failCount' = IF ok THEN failCount ELSE failCount + 1

Finish(p, status, h) ==
  outcomes' = outcomes \cup {[op |-> proc[p].op, status |-> status, handle |-> h]}

InitializeRejects_LeavesPending(p) ==
  IF proc[p].op = "getConnection"
  THEN /\ proc' = [proc EXCEPT ![p].pc = "gcResume"]
       /\ UNCHANGED <<promState, outcomes>>
  ELSE /\ proc' = [proc EXCEPT ![p] = Idle]
       /\ Finish(p, "rejected", 0)
       /\ UNCHANGED promState

\* The catch block of initialize: the run rejects.  A run started by
\* getConnection rejects the stored promise; the starter resumes after it.
InitializeRejects(p) ==
  IF proc[p].op = "getConnection"
  THEN /\ promState' = [promState EXCEPT ![proc[p].prom] = "rejected"]
       /\ proc' = [proc EXCEPT ![p].pc = "gcResume"]
       /\ UNCHANGED outcomes
  ELSE /\ proc' = [proc EXCEPT ![p] = Idle]
       /\ Finish(p, "rejected", 0)
       /\ UNCHANGED promState

\* The normal end of initialize.
InitializeResolves(p) ==
  IF proc[p].op = "getConnection"
  THEN /\ promState' = [promState EXCEPT ![proc[p].prom] = "fulfilled"]
       /\ proc' = [proc EXCEPT ![p].pc = "gcResume"]
       /\ UNCHANGED outcomes
  ELSE /\ proc' = [proc EXCEPT ![p] = Idle]
       /\ Finish(p, "ok", 0)
       /\ UNCHANGED promState

\* initialize(): the guard that decides whether a run starts
AlreadyInitialized_Never == FALSE

AlreadyInitialized == isInitialized /\ db # 0

\* initialize(dbName), first synchronous segment, called directly
InitializeCall(p, name) ==
  /\ proc[p].pc = "idle"
  /\ calls < MaxCalls
  /\ calls' = calls + 1
  /\ IF AlreadyInitialized
     THEN /\ outcomes' = outcomes \cup
                           {[op |-> "initialize", status |-> "ok", handle |-> 0]}
          /\ UNCHANGED <<proc, dbName, createCount>>
     ELSE /\ dbName' = IF name # "" THEN name ELSE dbName
          /\ createCount' = createCount + 1
          /\ proc' = [proc EXCEPT ![p] = [op |-> "initialize",
                                          pc |-> "createConnection",
                                          prom |-> 0,
                                          handle |-> createCount + 1]]
          /\ UNCHANGED outcomes
  /\ UNCHANGED <<db, isInitialized, initializationPromise, promState, openCount,
                 openHandles, failCount, tablesExist, schemaVersionRows>>

\* initialize: createConnection has returned; this.db is assigned and opened
InitializeAfterCreateConnection(p) ==
  /\ proc[p].pc = "createConnection"
  /\ \E ok \in BOOLEAN :
       /\ PluginResult(ok)
       /\ IF ok
          THEN /\ db' = proc[p].handle
               /\ openCount' = openCount + 1
               /\ proc' = [proc EXCEPT ![p].pc = "open"]
               /\ UNCHANGED <<promState, outcomes>>
          ELSE /\ InitializeRejects(p)
               /\ UNCHANGED <<db, openCount>>
  /\ UNCHANGED <<dbName, isInitialized, initializationPromise, calls,
                 createCount, openHandles, tablesExist, schemaVersionRows>>

\* initialize: open has returned; createTables starts with CREATE_TABLES_SQL
InitializeAfterOpen(p) ==
  /\ proc[p].pc = "open"
  /\ \E ok \in BOOLEAN :
       /\ PluginResult(ok)
       /\ openHandles' = IF ok THEN openHandles \cup {proc[p].handle}
                               ELSE openHandles
       /\ IF ok /\ db # 0
          THEN /\ proc' = [proc EXCEPT ![p].pc = "createTables"]
               /\ UNCHANGED <<promState, outcomes>>
          ELSE InitializeRejects(p)
  /\ UNCHANGED <<db, dbName, isInitialized, initializationPromise, calls,
                 createCount, openCount, tablesExist, schemaVersionRows>>

\* createTables: CREATE_TABLES_SQL (CREATE TABLE IF NOT EXISTS, all five
\* tables in one execute) has returned; CREATE_INDEXES_SQL is executed
CreateTablesAfterTables(p) ==
  /\ proc[p].pc = "createTables"
  /\ \E ok \in BOOLEAN :
       /\ PluginResult(ok)
       /\ IF ok /\ db # 0
          THEN /\ tablesExist' = TRUE
               /\ proc' = [proc EXCEPT ![p].pc = "createIndexes"]
               /\ UNCHANGED <<promState, outcomes>>
          ELSE /\ InitializeRejects(p)
               /\ UNCHANGED tablesExist
  /\ UNCHANGED <<db, dbName, isInitialized, initializationPromise, calls,
                 createCount, openCount, openHandles, schemaVersionRows>>

\* createTables: the indexes exist; INSERT_SCHEMA_VERSION_SQL is run
CreateTablesAfterIndexes(p) ==
  /\ proc[p].pc = "createIndexes"
  /\ \E ok \in BOOLEAN :
       /\ PluginResult(ok)
       /\ IF ok /\ db # 0
          THEN /\ proc' = [proc EXCEPT ![p].pc = "insertVersion"]
               /\ UNCHANGED <<promState, outcomes>>
          ELSE InitializeRejects(p)
  /\ UNCHANGED <<db, dbName, isInitialized, initializationPromise, calls,
                 createCount, openCount, openHandles, tablesExist,
                 schemaVersionRows>>

\* INSERT OR IGNORE INTO schema_version (version, appliedAt): version is the
\* PRIMARY KEY; a row that is already there is left alone and the statement
\* succeeds
InsertOrIgnoreSchemaVersion_Plain(rows, version) ==
  [ok |-> version \notin rows, rows |-> rows \cup {version}]

InsertOrIgnoreSchemaVersion(rows, version) ==
  [ok |-> TRUE, rows |-> rows \cup {version}]

\* initialize: the insert has returned, and so has createTables;
\* isInitialized is set
InitializeAfterCreateTables(p) ==
  /\ proc[p].pc = "insertVersion"
  /\ \E ok \in BOOLEAN :
       /\ PluginResult(ok)
       /\ LET ins == InsertOrIgnoreSchemaVersion(schemaVersionRows,
                                                 SCHEMA_VERSION)
          IN IF ok /\ ins.ok
             THEN /\ schemaVersionRows' = ins.rows
                  /\ isInitialized' = TRUE
                  /\ InitializeResolves(p)
             ELSE /\ InitializeRejects(p)
                  /\ UNCHANGED <<isInitialized, schemaVersionRows>>
  /\ UNCHANGED <<db, dbName, initializationPromise, calls, createCount,
                 openCount, openHandles, tablesExist>>

\* getConnection: an initialization is recorded as in flight
InitializationInFlight_Never == FALSE

InitializationInFlight == initializationPromise # 0

\* getConnection(), first synchronous segment
GetConnectionCall(p) ==
  /\ proc[p].pc = "idle"
  /\ calls < MaxCalls
  /\ calls' = calls + 1
  /\ IF db # 0 /\ isInitialized
     THEN \* return this.db
          /\ outcomes' = outcomes \cup
                           {[op |-> "getConnection", status |-> "ok", handle |-> db]}
          /\ UNCHANGED <<proc, initializationPromise, promState, createCount>>
     ELSE IF InitializationInFlight
     THEN \* await this.initializationPromise
          /\ proc' = [proc EXCEPT ![p] = [op |-> "getConnection",
                                          pc |-> "awaitInit",
                                          prom |-> initializationPromise,
                                          handle |-> 0]]
          /\ UNCHANGED <<initializationPromise, promState, createCount, outcomes>>
     ELSE \* this.initializationPromise = this.initialize()
          /\ createCount' = createCount + 1
          /\ initializationPromise' = calls + 1
          /\ promState' = (calls + 1) :> "pending" @@ promState
          /\ proc' = [proc EXCEPT ![p] = [op |-> "getConnection",
                                          pc |-> "createConnection",
                                          prom |-> calls + 1,
                                          handle |-> createCount + 1]]
          /\ UNCHANGED outcomes
  /\ UNCHANGED <<db, dbName, isInitialized, openCount, openHandles, failCount,
                 tablesExist, schemaVersionRows>>

\* the tail of getConnection after its await
GetConnectionReturn_IgnoresRejection(p) ==
  IF db = 0 THEN Finish(p, "rejected", 0) ELSE Finish(p, "ok", db)

GetConnectionReturn(p) ==
  IF promState[proc[p].prom] = "rejected" \/ db = 0
  THEN Finish(p, "rejected", 0)
  ELSE Finish(p, "ok", db)

\* getConnection of the caller that started the initialization: the await
\* returns, the finally block clears initializationPromise
GetConnectionStarterResumes(p) ==
  /\ proc[p].pc = "gcResume"
  /\ initializationPromise' = 0
  /\ GetConnectionReturn(p)
  /\ proc' = [proc EXCEPT ![p] = Idle]
  /\ UNCHANGED <<db, dbName, isInitialized, promState, calls, createCount,
                 openCount, openHandles, failCount, tablesExist,
                 schemaVersionRows>>

\* getConnection of a caller that found an initialization in flight
GetConnectionWaiterResumes(p) ==
  /\ proc[p].pc = "awaitInit"
  /\ promState[proc[p].prom] # "pending"
  /\ GetConnectionReturn(p)
  /\ proc' = [proc EXCEPT ![p] = Idle]
  /\ UNCHANGED <<db, dbName, isInitialized, initializationPromise, promState,
                 calls, createCount, openCount, openHandles, failCount,
                 tablesExist, schemaVersionRows>>

InitializeSteps(p) ==
  \/ InitializeAfterCreateConnection(p)
  \/ InitializeAfterOpen(p)
  \/ CreateTablesAfterTables(p)
  \/ CreateTablesAfterIndexes(p)
  \/ InitializeAfterCreateTables(p)

\* Overlapping initialize and getConnection calls on a fresh manager
OpenNext ==
  /\ UNCHANGED storeVars
  /\ \E p \in Procs :
       \/ \E name \in DbNameArgs : InitializeCall(p, name)
       \/ GetConnectionCall(p)
       \/ InitializeSteps(p)
       \/ GetConnectionStarterResumes(p)
       \/ GetConnectionWaiterResumes(p)

SpecOpen == FreshInit /\ [][OpenNext]_vars

\* Only getConnection is ever called
LazyNext ==
  /\ UNCHANGED storeVars
  /\ \E p \in Procs :
       \/ GetConnectionCall(p)
       \/ InitializeSteps(p)
       \/ GetConnectionStarterResumes(p)
       \/ GetConnectionWaiterResumes(p)

SpecLazy == FreshInit /\ [][LazyNext]_vars

\* ------------------------------------------------------- the SQL statements
\* Each statement yields [ok, err, t]: whether it succeeded, the error kind,
\* and the tables afterwards (unchanged when it failed).
SqlOk(t) == [ok |-> TRUE, err |-> "none", t |-> t]

SqlFail(t, err) == [ok |-> FALSE, err |-> err, t |-> t]

Ids(rows) == {r.id : r \in rows}

\* INSERT INTO workout_sessions: id is the PRIMARY KEY
InsertSession(t, row) ==
  IF row.id \in Ids(t.workout_sessions) \/ row.date = Null
  THEN SqlFail(t, "constraint")
  ELSE SqlOk([t EXCEPT !.workout_sessions = @ \cup {row}])

\* workout_exercises: FOREIGN KEY (sessionId) and FOREIGN KEY (exerciseId)
WorkoutExerciseKeysHold(t, row) ==
  /\ row.sessionId \in Ids(t.workout_sessions)
  /\ row.exerciseId = Null \/ row.exerciseId \in Ids(t.exercises)

\* INSERT INTO workout_exercises
InsertWorkoutExercise(t, row, fk) ==
  IF \/ row.id \in Ids(t.workout_exercises)
     \/ fk /\ ~WorkoutExerciseKeysHold(t, row)
  THEN SqlFail(t, "constraint")
  ELSE SqlOk([t EXCEPT !.workout_exercises = @ \cup {row}])

\* sets: CHECK(weight >= 0) and CHECK(reps >= 1)
SetChecksHold_None(row) == TRUE

SetChecksHold(row) == row.weight >= 0 /\ row.reps >= 1

\* INSERT INTO sets
InsertSet(t, row, fk) ==
  IF \/ row.id \in Ids(t.sets)
     \/ ~SetChecksHold(row)
     \/ fk /\ row.exerciseId \notin Ids(t.workout_exercises)
  THEN SqlFail(t, "constraint")
  ELSE SqlOk([t EXCEPT !.sets = @ \cup {row}])

\* the rows ON DELETE CASCADE removes from sets when the workout exercises
\* `gone` are deleted; none when the engine does not enforce foreign keys
CascadeSets(t, gone, fk) ==
  IF fk THEN {r \in t.sets : r.exerciseId \in Ids(gone)} ELSE {}

\* DELETE FROM workout_exercises WHERE sessionId = ?
DeleteWorkoutExercisesOf(t, sessionId, fk) ==
  LET gone == {e \in t.workout_exercises : e.sessionId = sessionId}
  IN SqlOk([t EXCEPT !.workout_exercises = @ \ gone,
                     !.sets = @ \ CascadeSets(t, gone, fk)])

\* DELETE FROM workout_sessions WHERE id = ?
DeleteSessionRow(t, id, fk) ==
  LET gone == IF fk THEN {e \in t.workout_exercises : e.sessionId = id}
                    ELSE {}
  IN SqlOk([t EXCEPT !.workout_sessions = {r \in @ : r.id # id},
                     !.workout_exercises = @ \ gone,
                     !.sets = @ \ CascadeSets(t, gone, fk)])

\* UPDATE workout_sessions SET <supplied fields>, updatedAt = ? WHERE id = ?
UpdateSessionRow_AllColumns(t, id, data, updatedAt) ==
  LET upd(r) == IF r.id # id THEN r
                ELSE [r EXCEPT !.date = IF data.hasDate THEN data.date ELSE @,
                               !.totalTime = data.totalTime,
                               !.updatedAt = updatedAt]
  IN IF data.hasDate /\ data.date = Null
     THEN SqlFail(t, "constraint")
     ELSE SqlOk([t EXCEPT !.workout_sessions = {upd(r) : r \in @}])

UpdateSessionRow(t, id, data, updatedAt) ==
  LET upd(r) == IF r.id # id THEN r
                ELSE [r EXCEPT
                        !.date = IF data.hasDate THEN data.date ELSE @,
                        !.totalTime = IF data.hasTotalTime THEN data.totalTime
                                      ELSE @,
                        !.updatedAt = updatedAt]
  IN IF data.hasDate /\ data.date = Null
     THEN SqlFail(t, "constraint")
     ELSE SqlOk([t EXCEPT !.workout_sessions = {upd(r) : r \in @}])

\* ------------------------------------------------------------- the queries
\* ORDER BY "order" ASC; rows with equal order come out in rowid order
RECURSIVE SortByOrder(_)
SortByOrder(rows) ==
  IF rows = {} THEN <<>>
  ELSE LET m == CHOOSE r \in rows :
                  \A q \in rows :
                    \/ r.order < q.order
                    \/ r.order = q.order /\ r.id <= q.id
       IN <<m>> \o SortByOrder(rows \ {m})

\* getExercisesForSession
GetExercisesForSession(t, sessionId) ==
  LET exs == SortByOrder({e \in t.workout_exercises : e.sessionId = sessionId})
  IN [i \in DOMAIN exs |->
        [id |-> exs[i].id, sessionId |-> exs[i].sessionId,
         exerciseId |-> exs[i].exerciseId,
         exerciseName |-> exs[i].exerciseName, bodyPart |-> exs[i].bodyPart,
         sets |-> SortByOrder({r \in t.sets : r.exerciseId = exs[i].id}),
         maxWeight |-> exs[i].maxWeight, order |-> exs[i].order]]

\* getSessionById
GetSessionById(t, id) ==
  IF id \notin Ids(t.workout_sessions) THEN NoSession
  ELSE LET r == CHOOSE x \in t.workout_sessions : x.id = id
       IN [found |-> TRUE, id |-> r.id, date |-> r.date,
           totalTime |-> r.totalTime,
           exercises |-> GetExercisesForSession(t, r.id),
           createdAt |-> r.createdAt, updatedAt |-> r.updatedAt]

\* a session row with its exercises and their sets, as the three read
\* methods build it
HydrateSession(t, r) ==
  [found |-> TRUE, id |-> r.id, date |-> r.date, totalTime |-> r.totalTime,
   exercises |-> GetExercisesForSession(t, r.id),
   createdAt |-> r.createdAt, updatedAt |-> r.updatedAt]

\* ORDER BY date DESC
DateDescending_Ascending(a, b) == a.date <= b.date

DateDescending(a, b) == a.date >= b.date

\* the orders in which the engine may return rows under ORDER BY date DESC:
\* rows of equal date come in an order SQL leaves open
RECURSIVE SessionsByDate(_)
SessionsByDate(rows) ==
  IF rows = {} THEN {<<>>}
  ELSE UNION {{<<m>> \o rest : rest \in SessionsByDate(rows \ {m})} :
                m \in {r \in rows : \A x \in rows : DateDescending(r, x)}}

\* WHERE date >= ? AND date <= ?; dates are ISO 8601 strings of one format,
\* whose order as text is their order in time
InDateRange_EndExclusive(date, startDate, endDate) ==
  date >= startDate /\ date < endDate

InDateRange(date, startDate, endDate) ==
  date >= startDate /\ date <= endDate

\* the arguments of getSessionsByDateRange
NoRange == [ranged |-> FALSE, startDate |-> Null, endDate |-> Null]

DateRanges ==
  {[ranged |-> TRUE, startDate |-> r[1], endDate |-> r[2]] :
     r \in {<<1, 1>>, <<1, 2>>, <<2, 3>>, <<2, 1>>}}

\* the rows getAllSessions (no range) or getSessionsByDateRange selects
SelectedSessions(t, range) ==
  IF range.ranged
  THEN {r \in t.workout_sessions :
          InDateRange(r.date, range.startDate, range.endDate)}
  ELSE t.workout_sessions

MaxOf(S) == CHOOSE m \in S : \A x \in S : x <= m

GetPreviousMaxWeight_Min(t, exerciseName) ==
  LET ws == {e.maxWeight : e \in
               {x \in t.workout_exercises :
                  /\ NoCase(x.exerciseName) = NoCase(exerciseName)
                  /\ x.maxWeight # Null}}
  IN IF ws = {} THEN Null ELSE CHOOSE m \in ws : \A x \in ws : m <= x

\* getPreviousMaxWeight: SELECT MAX(maxWeight) ... WHERE exerciseName = ?
\* COLLATE NOCASE; MAX skips NULL and is NULL when nothing is left
GetPreviousMaxWeight(t, exerciseName) ==
  LET ws == {e.maxWeight : e \in
               {x \in t.workout_exercises :
                  /\ NoCase(x.exerciseName) = NoCase(exerciseName)
                  /\ x.maxWeight # Null}}
  IN IF ws = {} THEN Null ELSE MaxOf(ws)

\* ------------------------------------------------- inputs of the repository
\* The sets and exercises a caller passes carry id, exerciseId and sessionId
\* fields of their own; here they name rows that are already stored.
SetA ==
  [id |-> 4, exerciseId |-> 3, weight |-> 70, reps |-> 10, completedAt |-> 1,
   order |-> 0]

SetB ==
  [id |-> 4, exerciseId |-> 3, weight |-> 80, reps |-> 8, completedAt |-> 1,
   order |-> 1]

\* a set the CHECK(reps >= 1) constraint refuses
SetZeroReps ==
  [id |-> 4, exerciseId |-> 3, weight |-> 75, reps |-> 0, completedAt |-> 1,
   order |-> 1]

\* the id of the library exercise present from the start, and an id that
\* never identifies a library exercise
LibRef == 1

DanglingRef == 0

\* an id no stored session has
UnknownId == 0

BaseExercise ==
  [id |-> 3, sessionId |-> 2, exerciseId |-> Null, exerciseName |-> NameUpper, bodyPart |-> "chest",
   sets |-> <<SetA, SetB>>, order |-> 0]

\* the same name in lower case, linked to the library exercise
LinkedExercise ==
  [id |-> 3, sessionId |-> 2, exerciseId |-> LibRef, exerciseName |-> NameLower, bodyPart |-> "chest",
   sets |-> <<SetA>>, order |-> 1]

\* a reference to a library exercise that does not exist
DanglingExercise ==
  [id |-> 3, sessionId |-> 2, exerciseId |-> DanglingRef, exerciseName |-> NameKana, bodyPart |-> "legs",
   sets |-> <<SetB>>, order |-> 0]

\* its second set violates CHECK(reps >= 1)
InvalidExercise ==
  [id |-> 3, sessionId |-> 2, exerciseId |-> Null, exerciseName |-> NameUpper, bodyPart |-> "chest",
   sets |-> <<SetA, SetZeroReps>>, order |-> 0]

SessionInputs ==
  {[date |-> 1, totalTime |-> Null, exercises |-> <<>>],
   [date |-> 1, totalTime |-> Null, exercises |-> <<BaseExercise>>],
   [date |-> 2, totalTime |-> 3600, exercises |-> <<DanglingExercise>>],
   [date |-> 1, totalTime |-> Null, exercises |-> <<InvalidExercise>>],
   [date |-> 2, totalTime |-> 3600,
    exercises |-> <<BaseExercise, LinkedExercise>>]}

\* Partial<WorkoutSession>: a field is supplied or undefined
UpdateInputs ==
  {[hasDate |-> hd, date |-> IF hd THEN 3 ELSE Null,
    hasTotalTime |-> hd, totalTime |-> IF hd THEN 4200 ELSE Null,
    hasExercises |-> he, exercises |-> IF he THEN <<LinkedExercise>> ELSE <<>>] :
     hd \in BOOLEAN, he \in BOOLEAN}
  \cup
  {[hasDate |-> FALSE, date |-> Null, hasTotalTime |-> TRUE, totalTime |-> 4200,
    hasExercises |-> TRUE, exercises |-> <<InvalidExercise>>],
   [hasDate |-> FALSE, date |-> Null, hasTotalTime |-> FALSE, totalTime |-> Null,
    hasExercises |-> TRUE, exercises |-> <<>>]}

\* ------------------------------------------------ WorkoutSessionStorage
\* a statement is lost to an I/O error of the engine (TRUE) or is executed
IoResult(io) ==
  /\ io \in BOOLEAN
  /\ io => failCount < MaxFail
  /\ failCount' = IF io THEN failCount + 1 ELSE failCount

Executed(io, r) == IF io THEN SqlFail(tables, "io") ELSE r

Quiescent == \A c \in Callers : rcall[c].pc \in {"idle", "done"}

\* the call returns or throws
Settle(c, status, err, failedAt) ==
  [rcall[c] EXCEPT !.pc = "done", !.status = status, !.err = err,
                   !.failedAt = failedAt]

\* the catch block of createSession / updateSession is entered
ToRollback_Rethrow(c, err, failedAt) == Settle(c, "rejected", err, failedAt)

ToRollback(c, err, failedAt) ==
  [rcall[c] EXCEPT !.pc = "rollback", !.err = err, !.failedAt = failedAt]

\* the statement that follows the loop over the exercises
AfterExercises(op) == IF op = "createSession" THEN "commit" ELSE "updateSession"

\* the next statement of the nested loops once exercise `ex` and its set
\* `st` (0: none yet) have been inserted
NextInsert(cr, ex, st) ==
  LET L == cr.input.exercises
  IN IF ex >= 1 /\ st < Len(L[ex].sets)
     THEN [cr EXCEPT !.pc = "insertSet", !.ex = ex, !.st = st + 1]
     ELSE IF ex < Len(L)
     THEN [cr EXCEPT !.pc = "insertExercise", !.ex = ex + 1, !.st = 0]
     ELSE [cr EXCEPT !.pc = AfterExercises(cr.op), !.ex = ex, !.st = st]

\* getCurrentTimestamp
GetCurrentTimestamp == clock

\* getUpdatedTimestamp with the two readings of the clock it takes
GetUpdatedTimestamp_NoBump(oldTimestamp, newTimestamp, date) == newTimestamp

GetUpdatedTimestamp(oldTimestamp, newTimestamp, date) ==
  IF newTimestamp = oldTimestamp THEN date + 1 ELSE newTimestamp

\* createSession: up to BEGIN TRANSACTION
CreateSessionCall(c, session) ==
  /\ rcall[c].pc \in {"idle", "done"}
  /\ calls < MaxRequests
  /\ Cardinality(tables.workout_sessions) < MaxSessions
  /\ calls' = calls + 1
  /\ nextId' = nextId + 1
  /\ rcall' = [rcall EXCEPT ![c] =
                 [IdleCall EXCEPT !.no = calls + 1, !.before = tables,
                                  !.op = "createSession",
                                  !.pc = "begin",
                                  !.id = nextId, !.input = session,
                                  !.now = GetCurrentTimestamp]]
  /\ UNCHANGED <<tables, inTransaction, txSnapshot, foreignKeys, clock,
                 failCount>>

\* updateSession / deleteSession: up to the getSessionById query
UpdateSessionCall(c, id, data) ==
  /\ rcall[c].pc \in {"idle", "done"}
  /\ calls < MaxRequests
  /\ calls' = calls + 1
  /\ rcall' = [rcall EXCEPT ![c] =
                 [IdleCall EXCEPT !.no = calls + 1, !.before = tables,
                                  !.op = "updateSession",
                                  !.pc = "readExisting", !.id = id,
                                  !.input = data]]
  /\ UNCHANGED <<tables, inTransaction, txSnapshot, foreignKeys, clock,
                 nextId, failCount>>

DeleteSessionCall(c, id) ==
  /\ rcall[c].pc \in {"idle", "done"}
  /\ calls < MaxRequests
  /\ calls' = calls + 1
  /\ rcall' = [rcall EXCEPT ![c] =
                 [IdleCall EXCEPT !.no = calls + 1, !.before = tables,
                                  !.op = "deleteSession",
                                  !.pc = "readExisting", !.id = id]]
  /\ UNCHANGED <<tables, inTransaction, txSnapshot, foreignKeys, clock,
                 nextId, failCount>>

\* updateSession / deleteSession: getSessionById has returned
ReadExisting(c) ==
  /\ rcall[c].pc = "readExisting"
  /\ \E io \in BOOLEAN, d \in {0, 1} :
       /\ IoResult(io)
       /\ d = 1 => /\ clock < MaxClock
                   /\ ~io
                   /\ rcall[c].op = "updateSession"
                   /\ GetSessionById(tables, rcall[c].id).found
                   /\ GetSessionById(tables, rcall[c].id).updatedAt = clock
       /\ clock' = clock + d
       /\ LET existing == GetSessionById(tables, rcall[c].id)
          IN rcall' = [rcall EXCEPT ![c] =
               IF io THEN Settle(c, "rejected", "io", "readExisting")
               ELSE IF ~existing.found
               THEN Settle(c, "rejected", "notFound", "readExisting")
               ELSE IF rcall[c].op = "deleteSession"
               THEN [@ EXCEPT !.pc = "deleteSession", !.existing = existing]
               ELSE [@ EXCEPT !.pc = "begin", !.existing = existing,
                              !.now = GetUpdatedTimestamp(existing.updatedAt,
                                                          clock, clock + d)]]
  /\ UNCHANGED <<tables, inTransaction, txSnapshot, foreignKeys, nextId, calls>>

\* BEGIN TRANSACTION, issued before the try block
Begin(c) ==
  /\ rcall[c].pc = "begin"
  /\ \E io \in BOOLEAN :
       /\ IoResult(io)
       /\ IF io \/ inTransaction
          THEN /\ rcall' = [rcall EXCEPT ![c] =
                   Settle(c, "rejected", IF io THEN "io" ELSE "transaction",
                          "begin")]
               /\ UNCHANGED <<inTransaction, txSnapshot>>
          ELSE /\ inTransaction' = TRUE
               /\ txSnapshot' = tables
               /\ rcall' = [rcall EXCEPT ![c].pc =
                   IF rcall[c].op = "createSession" THEN "insertSession"
                   ELSE IF rcall[c].input.hasExercises THEN "deleteExercises"
                   ELSE "updateSession"]
  /\ UNCHANGED <<tables, foreignKeys, clock, nextId, calls>>

\* createSession: INSERT INTO workout_sessions
InsertSessionStep(c) ==
  /\ rcall[c].pc = "insertSession"
  /\ \E io \in BOOLEAN :
       /\ IoResult(io)
       /\ LET cr == rcall[c]
              r == Executed(io, InsertSession(tables,
                     [id |-> cr.id, date |-> cr.input.date,
                      totalTime |-> cr.input.totalTime,
                      createdAt |-> cr.now, updatedAt |-> cr.now]))
          IN /\ tables' = r.t
             /\ rcall' = [rcall EXCEPT ![c] =
                  IF r.ok
                  THEN NextInsert(cr, 0, 0)
                  ELSE ToRollback(c, r.err, "insertSession")]
  /\ UNCHANGED <<inTransaction, txSnapshot, foreignKeys, clock, nextId, calls>>

\* updateSession: DELETE FROM workout_exercises WHERE sessionId = ?
DeleteExercisesStep(c) ==
  /\ rcall[c].pc = "deleteExercises"
  /\ \E io \in BOOLEAN :
       /\ IoResult(io)
       /\ LET cr == rcall[c]
              r == Executed(io,
                     DeleteWorkoutExercisesOf(tables, cr.id, foreignKeys))
          IN /\ tables' = r.t
             /\ rcall' = [rcall EXCEPT ![c] =
                  IF r.ok THEN NextInsert(cr, 0, 0)
                  ELSE ToRollback(c, r.err, "deleteExercises")]
  /\ UNCHANGED <<inTransaction, txSnapshot, foreignKeys, clock, nextId, calls>>

\* maxWeight of an exercise: Math.max over its sets, null without sets
MaxWeightOf_FirstSet(sets) == IF Len(sets) > 0 THEN sets[1].weight ELSE Null

MaxWeightOf(sets) ==
  IF Len(sets) > 0 THEN MaxOf({sets[i].weight : i \in DOMAIN sets}) ELSE Null

\* the row inserted for a supplied exercise: its id is generated and its
\* sessionId is the session being written
WorkoutExerciseRow_AsSupplied(id, sessionId, e) ==
  [id |-> e.id, sessionId |-> e.sessionId, exerciseId |-> e.exerciseId,
   exerciseName |-> e.exerciseName, bodyPart |-> e.bodyPart,
   maxWeight |-> MaxWeightOf(e.sets), order |-> e.order]

WorkoutExerciseRow(id, sessionId, e) ==
  [id |-> id, sessionId |-> sessionId, exerciseId |-> e.exerciseId,
   exerciseName |-> e.exerciseName, bodyPart |-> e.bodyPart,
   maxWeight |-> MaxWeightOf(e.sets), order |-> e.order]

\* the row inserted for a supplied set of the exercise just inserted
SetRow(id, exerciseId, x) ==
  [id |-> id, exerciseId |-> exerciseId, weight |-> x.weight, reps |-> x.reps,
   completedAt |-> x.completedAt, order |-> x.order]

\* INSERT INTO workout_exercises for the exercise at position ex
InsertExerciseStep(c) ==
  /\ rcall[c].pc = "insertExercise"
  /\ \E io \in BOOLEAN :
       /\ IoResult(io)
       /\ LET cr == rcall[c]
              e == cr.input.exercises[cr.ex]
              r == Executed(io, InsertWorkoutExercise(tables,
                     WorkoutExerciseRow(nextId, cr.id, e), foreignKeys))
          IN /\ tables' = r.t
             /\ rcall' = [rcall EXCEPT ![c] =
                  IF r.ok
                  THEN NextInsert([cr EXCEPT !.exId = nextId], cr.ex, 0)
                  ELSE ToRollback(c, r.err, "insertExercise")]
  /\ nextId' = nextId + 1
  /\ UNCHANGED <<inTransaction, txSnapshot, foreignKeys, clock, calls>>

\* INSERT INTO sets for the set at position st of exercise ex
InsertSetStep(c) ==
  /\ rcall[c].pc = "insertSet"
  /\ \E io \in BOOLEAN :
       /\ IoResult(io)
       /\ LET cr == rcall[c]
              x == cr.input.exercises[cr.ex].sets[cr.st]
              r == Executed(io, InsertSet(tables,
                     SetRow(nextId, cr.exId, x), foreignKeys))
          IN /\ tables' = r.t
             /\ rcall' = [rcall EXCEPT ![c] =
                  IF r.ok
                  THEN NextInsert(cr, cr.ex, cr.st)
                  ELSE ToRollback(c, r.err, "insertSet")]
  /\ nextId' = nextId + 1
  /\ UNCHANGED <<inTransaction, txSnapshot, foreignKeys, clock, calls>>

\* updateSession: UPDATE workout_sessions
UpdateSessionStep(c) ==
  /\ rcall[c].pc = "updateSession"
  /\ \E io \in BOOLEAN :
       /\ IoResult(io)
       /\ LET cr == rcall[c]
              r == Executed(io,
                     UpdateSessionRow(tables, cr.id, cr.input, cr.now))
          IN /\ tables' = r.t
             /\ rcall' = [rcall EXCEPT ![c] =
                  IF r.ok THEN [cr EXCEPT !.pc = "commit"]
                  ELSE ToRollback(c, r.err, "updateSession")]
  /\ UNCHANGED <<inTransaction, txSnapshot, foreignKeys, clock, nextId, calls>>

\* COMMIT
Commit(c) ==
  /\ rcall[c].pc = "commit"
  /\ \E io \in BOOLEAN :
       /\ IoResult(io)
       /\ IF io \/ ~inTransaction
          THEN /\ rcall' = [rcall EXCEPT ![c] =
                   ToRollback(c, IF io THEN "io" ELSE "transaction", "commit")]
               /\ UNCHANGED inTransaction
          ELSE /\ inTransaction' = FALSE
               /\ rcall' = [rcall EXCEPT ![c].pc = "readBack"]
  /\ UNCHANGED <<tables, txSnapshot, foreignKeys, clock, nextId, calls>>

\* the getSessionById that produces the return value
ReadBack(c) ==
  /\ rcall[c].pc = "readBack"
  /\ \E io \in BOOLEAN :
       /\ IoResult(io)
       /\ LET got == GetSessionById(tables, rcall[c].id)
          IN rcall' = [rcall EXCEPT ![c] =
               IF io THEN ToRollback(c, "io", "readBack")
               ELSE IF ~got.found THEN ToRollback(c, "retrieve", "readBack")
               ELSE [Settle(c, "ok", "none", "none") EXCEPT !.result = got]]
  /\ UNCHANGED <<tables, inTransaction, txSnapshot, foreignKeys, clock, nextId,
                 calls>>

Rollback_KeepsRows(c) ==
  /\ rcall[c].pc = "rollback"
  /\ inTransaction' = FALSE
  /\ rcall' = [rcall EXCEPT ![c] =
       Settle(c, "rejected", rcall[c].err, rcall[c].failedAt)]
  /\ UNCHANGED <<tables, txSnapshot, foreignKeys, clock, nextId, calls,
                 failCount>>

\* ROLLBACK in the catch block, then the error is rethrown.  ROLLBACK fails
\* only when no transaction is open, and then its error is the one thrown.
Rollback(c) ==
  /\ rcall[c].pc = "rollback"
  /\ IF inTransaction
     THEN /\ tables' = txSnapshot
          /\ inTransaction' = FALSE
          /\ rcall' = [rcall EXCEPT ![c] =
               Settle(c, "rejected", rcall[c].err, rcall[c].failedAt)]
     ELSE /\ rcall' = [rcall EXCEPT ![c] =
               Settle(c, "rejected", "noTransaction", rcall[c].failedAt)]
          /\ UNCHANGED <<tables, inTransaction>>
  /\ UNCHANGED <<txSnapshot, foreignKeys, clock, nextId, calls, failCount>>

\* deleteSession: DELETE FROM workout_sessions WHERE id = ?
DeleteSessionStep(c) ==
  /\ rcall[c].pc = "deleteSession"
  /\ \E io \in BOOLEAN :
       /\ IoResult(io)
       /\ LET r == Executed(io,
                     DeleteSessionRow(tables, rcall[c].id, foreignKeys))
          IN /\ tables' = r.t
             /\ rcall' = [rcall EXCEPT ![c] =
                  IF r.ok THEN Settle(c, "ok", "none", "none")
                  ELSE Settle(c, "rejected", r.err, "deleteSession")]
  /\ UNCHANGED <<inTransaction, txSnapshot, foreignKeys, clock, nextId, calls>>

\* getSessionById: up to its first query
GetSessionByIdCall(c, id) ==
  /\ rcall[c].pc \in {"idle", "done"}
  /\ calls < MaxRequests
  /\ calls' = calls + 1
  /\ rcall' = [rcall EXCEPT ![c] =
                 [IdleCall EXCEPT !.no = calls + 1, !.before = tables,
                                  !.op = "getSessionById",
                                  !.pc = "querySession", !.id = id]]
  /\ UNCHANGED <<tables, inTransaction, txSnapshot, foreignKeys, clock,
                 nextId, failCount>>

\* getSessionById: its queries have returned.  The queries of one read method
\* follow each other with no other call in between, so they are one step.
QuerySessionReturn(c) ==
  /\ rcall[c].pc = "querySession"
  /\ \E io \in BOOLEAN :
       /\ IoResult(io)
       /\ rcall' = [rcall EXCEPT ![c] =
            IF io THEN Settle(c, "rejected", "io", "querySession")
            ELSE [Settle(c, "ok", "none", "none") EXCEPT
                    !.result = GetSessionById(tables, rcall[c].id)]]
  /\ UNCHANGED <<tables, inTransaction, txSnapshot, foreignKeys, clock, nextId,
                 calls>>

\* getAllSessions: up to its first query
GetAllSessionsCall(c) ==
  /\ rcall[c].pc \in {"idle", "done"}
  /\ calls < MaxRequests
  /\ calls' = calls + 1
  /\ rcall' = [rcall EXCEPT ![c] =
                 [IdleCall EXCEPT !.no = calls + 1, !.before = tables,
                                  !.op = "getAllSessions",
                                  !.pc = "querySessions", !.input = NoRange]]
  /\ UNCHANGED <<tables, inTransaction, txSnapshot, foreignKeys, clock,
                 nextId, failCount>>

\* getSessionsByDateRange: up to its first query
GetSessionsByDateRangeCall(c, range) ==
  /\ rcall[c].pc \in {"idle", "done"}
  /\ calls < MaxRequests
  /\ calls' = calls + 1
  /\ rcall' = [rcall EXCEPT ![c] =
                 [IdleCall EXCEPT !.no = calls + 1, !.before = tables,
                                  !.op = "getSessionsByDateRange",
                                  !.pc = "querySessions", !.input = range]]
  /\ UNCHANGED <<tables, inTransaction, txSnapshot, foreignKeys, clock,
                 nextId, failCount>>

\* getAllSessions / getSessionsByDateRange: the queries have returned
QuerySessionsReturn(c) ==
  /\ rcall[c].pc = "querySessions"
  /\ \E io \in BOOLEAN :
       /\ IoResult(io)
       /\ \E rows \in SessionsByDate(SelectedSessions(tables, rcall[c].input)) :
            rcall' = [rcall EXCEPT ![c] =
              IF io THEN Settle(c, "rejected", "io", "querySessions")
              ELSE [Settle(c, "ok", "none", "none") EXCEPT
                      !.list = [i \in DOMAIN rows |->
                                  HydrateSession(tables, rows[i])]]]
  /\ UNCHANGED <<tables, inTransaction, txSnapshot, foreignKeys, clock, nextId,
                 calls>>

\* time passes; shown only where a later reading of the clock can tell
Tick ==
  /\ clock < MaxClock
  /\ \A c \in Callers : rcall[c].pc \in {"idle", "done", "readExisting"}
  /\ clock' = clock + 1
  /\ UNCHANGED <<tables, inTransaction, txSnapshot, foreignKeys, nextId, rcall,
                 calls, failCount>>

\* the library exercise the sessions may refer to
SeedLibrary ==
  {[id |-> LibRef, name |-> NameUpper, bodyPart |-> "chest", videoUrl |-> Null,
    createdAt |-> 0, lastUsed |-> Null]}

\* a store with one library exercise and one recorded session that used it
SeedHistory ==
  [workout_sessions |->
     {[id |-> 2, date |-> 1, totalTime |-> Null, createdAt |-> 0,
       updatedAt |-> 0]},
   workout_exercises |->
     {[id |-> 3, sessionId |-> 2, exerciseId |-> LibRef,
       exerciseName |-> NameLower, bodyPart |-> "chest", maxWeight |-> 70,
       order |-> 0]},
   sets |->
     {[id |-> 4, exerciseId |-> 3, weight |-> 70, reps |-> 10,
       completedAt |-> 1, order |-> 0]},
   exercises |-> SeedLibrary]

\* an initialized store with recorded history; foreign-key enforcement is a
\* property of the engine behind the plugin and is never set by the
\* repository's code
SessionInit ==
  /\ MgrReadyInit
  /\ tables = SeedHistory
  /\ inTransaction = FALSE
  /\ txSnapshot = EmptyTables
  /\ foreignKeys \in BOOLEAN
  /\ clock = 0
  /\ nextId = 5
  /\ rcall = [c \in Callers |-> IdleCall]

\* one caller issuing createSession, updateSession and deleteSession, each
\* call awaited before the next is made
SessionNext ==
  /\ UNCHANGED mgrState
  /\ \/ Tick
     \/ \E c \in Callers :
          \/ /\ Quiescent
             /\ \/ \E session \in SessionInputs : CreateSessionCall(c, session)
                \/ \E id \in Ids(tables.workout_sessions) \cup {UnknownId},
                      data \in UpdateInputs : UpdateSessionCall(c, id, data)
                \/ \E id \in Ids(tables.workout_sessions) \cup {UnknownId} :
                     DeleteSessionCall(c, id)
                \/ \E id \in Ids(tables.workout_sessions) \cup {UnknownId} :
                     GetSessionByIdCall(c, id)
                \/ GetAllSessionsCall(c)
                \/ \E range \in DateRanges :
                     GetSessionsByDateRangeCall(c, range)
          \/ ReadExisting(c)
          \/ Begin(c)
          \/ InsertSessionStep(c)
          \/ DeleteExercisesStep(c)
          \/ InsertExerciseStep(c)
          \/ InsertSetStep(c)
          \/ UpdateSessionStep(c)
          \/ Commit(c)
          \/ ReadBack(c)
          \/ Rollback(c)
          \/ DeleteSessionStep(c)
          \/ QuerySessionReturn(c)
          \/ QuerySessionsReturn(c)

SpecSessions == SessionInit /\ [][SessionNext]_vars

\* ------------------------------------------------ ExerciseLibraryStorage
\* exercises: UNIQUE(name, bodyPart), compared byte for byte
UniquePairFree_Unchecked(rows, name, bodyPart) == TRUE

UniquePairFree(rows, name, bodyPart) ==
  ~\E r \in rows : r.name = name /\ r.bodyPart = bodyPart

\* INSERT INTO exercises
InsertLibraryExercise(t, row) ==
  IF \/ row.id \in Ids(t.exercises)
     \/ ~UniquePairFree(t.exercises, row.name, row.bodyPart)
  THEN SqlFail(t, "unique")
  ELSE SqlOk([t EXCEPT !.exercises = @ \cup {row}])

\* UPDATE exercises SET <supplied fields> WHERE id = ?
UpdateLibraryExercise_SelfCollides(t, id, data) ==
  LET upd(r) == [r EXCEPT
                   !.name = IF data.hasName THEN data.name ELSE @,
                   !.bodyPart = IF data.hasBodyPart THEN data.bodyPart ELSE @,
                   !.videoUrl = IF data.hasVideoUrl THEN data.videoUrl ELSE @,
                   !.lastUsed = IF data.hasLastUsed THEN data.lastUsed ELSE @]
      others == t.exercises
  IN IF \E r \in t.exercises :
          /\ r.id = id
          /\ ~UniquePairFree(others, upd(r).name, upd(r).bodyPart)
     THEN SqlFail(t, "unique")
     ELSE SqlOk([t EXCEPT !.exercises =
                   {IF r.id = id THEN upd(r) ELSE r : r \in @}])

UpdateLibraryExercise(t, id, data) ==
  LET upd(r) == [r EXCEPT
                   !.name = IF data.hasName THEN data.name ELSE @,
                   !.bodyPart = IF data.hasBodyPart THEN data.bodyPart ELSE @,
                   !.videoUrl = IF data.hasVideoUrl THEN data.videoUrl ELSE @,
                   !.lastUsed = IF data.hasLastUsed THEN data.lastUsed ELSE @]
      others == {r \in t.exercises : r.id # id}
  IN IF \E r \in t.exercises :
          /\ r.id = id
          /\ ~UniquePairFree(others, upd(r).name, upd(r).bodyPart)
     THEN SqlFail(t, "unique")
     ELSE SqlOk([t EXCEPT !.exercises =
                   {IF r.id = id THEN upd(r) ELSE r : r \in @}])

\* UPDATE exercises SET lastUsed = ? WHERE id = ?
UpdateLastUsedRow(t, id, timestamp) ==
  SqlOk([t EXCEPT !.exercises =
           {IF r.id = id THEN [r EXCEPT !.lastUsed = timestamp] ELSE r :
              r \in @}])

\* DELETE FROM exercises WHERE id = ?; workout_exercises.exerciseId is
\* declared ON DELETE SET NULL
DeleteLibraryExercise_Cascade(t, id, fk) ==
  LET gone == {e \in t.workout_exercises : fk /\ e.exerciseId = id}
  IN SqlOk([t EXCEPT !.exercises = {r \in @ : r.id # id},
                     !.workout_exercises = @ \ gone,
                     !.sets = @ \ CascadeSets(t, gone, fk)])

DeleteLibraryExercise(t, id, fk) ==
  SqlOk([t EXCEPT
           !.exercises = {r \in @ : r.id # id},
           !.workout_exercises =
              {IF fk /\ e.exerciseId = id THEN [e EXCEPT !.exerciseId = Null]
               ELSE e : e \in @}])

\* the result of getExerciseById for an id that is not stored
NoExercise ==
  [found |-> FALSE, id |-> Null, name |-> <<>>, bodyPart |-> "",
   videoUrl |-> Null, createdAt |-> Null, lastUsed |-> Null]

\* getExerciseById with rowToExercise
GetExerciseById_AlwaysFound(t, id) ==
  IF id \notin Ids(t.exercises) THEN [NoExercise EXCEPT !.found = TRUE]
  ELSE LET r == CHOOSE x \in t.exercises : x.id = id
       IN [found |-> TRUE, id |-> r.id, name |-> r.name,
           bodyPart |-> r.bodyPart, videoUrl |-> r.videoUrl,
           createdAt |-> r.createdAt, lastUsed |-> r.lastUsed]

GetExerciseById(t, id) ==
  IF id \notin Ids(t.exercises) THEN NoExercise
  ELSE LET r == CHOOSE x \in t.exercises : x.id = id
       IN [found |-> TRUE, id |-> r.id, name |-> r.name,
           bodyPart |-> r.bodyPart, videoUrl |-> r.videoUrl,
           createdAt |-> r.createdAt, lastUsed |-> r.lastUsed]

\* SELECT id FROM exercises WHERE name = ? COLLATE NOCASE LIMIT 1: the
\* matching row with the lowest rowid, Null when there is none
FirstByName_Latest(t, name) ==
  LET m == {r.id : r \in {x \in t.exercises : NoCase(x.name) = NoCase(name)}}
  IN IF m = {} THEN Null ELSE CHOOSE i \in m : \A j \in m : i >= j

FirstByName(t, name) ==
  LET m == {r.id : r \in {x \in t.exercises : NoCase(x.name) = NoCase(name)}}
  IN IF m = {} THEN Null ELSE CHOOSE i \in m : \A j \in m : i <= j

BodyParts == {"chest", "legs"}

\* Omit<Exercise, 'id' | 'createdAt' | 'lastUsed'>
ExerciseData ==
  {[name |-> n, bodyPart |-> "chest", videoUrl |-> Null] : n \in Names}
    \cup {[name |-> NameUpper, bodyPart |-> "legs", videoUrl |-> Null]}

NoChange ==
  [hasName |-> FALSE, name |-> <<>>, hasBodyPart |-> FALSE, bodyPart |-> "",
   hasVideoUrl |-> FALSE, videoUrl |-> Null,
   hasLastUsed |-> FALSE, lastUsed |-> Null]

\* Partial<Omit<Exercise, 'id' | 'createdAt'>>
ExerciseUpdates ==
  {NoChange}
    \cup {[NoChange EXCEPT !.hasName = TRUE, !.name = n] :
            n \in {NameUpper, NameLower}}
    \cup {[NoChange EXCEPT !.hasBodyPart = TRUE, !.bodyPart = "chest"],
          [NoChange EXCEPT !.hasName = TRUE, !.name = NameUpper,
                           !.hasBodyPart = TRUE, !.bodyPart = "legs"],
          [NoChange EXCEPT !.hasVideoUrl = TRUE, !.videoUrl = 7,
                           !.hasLastUsed = TRUE, !.lastUsed = 0]}

\* the message of the error thrown for a UNIQUE violation
AlreadyExists(name, bodyPart) == <<"already exists", name, bodyPart>>

\* createExercise: up to the INSERT
CreateExerciseCall(c, data) ==
  /\ rcall[c].pc \in {"idle", "done"}
  /\ calls < MaxRequests
  /\ Cardinality(tables.exercises) < MaxLibrary
  /\ calls' = calls + 1
  /\ nextId' = nextId + 1
  /\ rcall' = [rcall EXCEPT ![c] =
                 [IdleCall EXCEPT !.no = calls + 1, !.before = tables,
                                  !.op = "createExercise",
                                  !.pc = "libInsert",
                                  !.id = nextId, !.input = data,
                                  !.now = GetCurrentTimestamp]]
  /\ UNCHANGED <<tables, inTransaction, txSnapshot, foreignKeys, clock,
                 failCount>>

\* createExercise: the INSERT and its catch block
LibInsert(c) ==
  /\ rcall[c].pc = "libInsert"
  /\ \E io \in BOOLEAN :
       /\ IoResult(io)
       /\ LET cr == rcall[c]
              r == Executed(io, InsertLibraryExercise(tables,
                     [id |-> cr.id, name |-> cr.input.name,
                      bodyPart |-> cr.input.bodyPart,
                      videoUrl |-> cr.input.videoUrl,
                      createdAt |-> cr.now, lastUsed |-> Null]))
          IN /\ tables' = r.t
             /\ rcall' = [rcall EXCEPT ![c] =
                  IF r.ok THEN [cr EXCEPT !.pc = "libReadBack"]
                  ELSE IF r.err = "unique"
                  THEN [Settle(c, "rejected", "alreadyExists", "libInsert")
                          EXCEPT !.msg = AlreadyExists(cr.input.name,
                                                       cr.input.bodyPart)]
                  ELSE Settle(c, "rejected", r.err, "libInsert")]
  /\ UNCHANGED <<inTransaction, txSnapshot, foreignKeys, clock, nextId, calls>>

\* createExercise / updateExercise: the getExerciseById that is returned
LibReadBack(c) ==
  /\ rcall[c].pc = "libReadBack"
  /\ \E io \in BOOLEAN :
       /\ IoResult(io)
       /\ LET got == GetExerciseById(tables, rcall[c].id)
          IN rcall' = [rcall EXCEPT ![c] =
               IF io THEN Settle(c, "rejected", "io", "libReadBack")
               ELSE IF ~got.found
               THEN Settle(c, "rejected", "retrieve", "libReadBack")
               ELSE [Settle(c, "ok", "none", "none") EXCEPT !.result = got]]
  /\ UNCHANGED <<tables, inTransaction, txSnapshot, foreignKeys, clock, nextId,
                 calls>>

\* updateExercise / deleteExercise: up to the getExerciseById query
UpdateExerciseCall(c, id, data) ==
  /\ rcall[c].pc \in {"idle", "done"}
  /\ calls < MaxRequests
  /\ calls' = calls + 1
  /\ rcall' = [rcall EXCEPT ![c] =
                 [IdleCall EXCEPT !.no = calls + 1, !.before = tables,
                                  !.op = "updateExercise",
                                  !.pc = "libReadExisting", !.id = id,
                                  !.input = data, !.existing = NoExercise]]
  /\ UNCHANGED <<tables, inTransaction, txSnapshot, foreignKeys, clock,
                 nextId, failCount>>

DeleteExerciseCall(c, id) ==
  /\ rcall[c].pc \in {"idle", "done"}
  /\ calls < MaxRequests
  /\ calls' = calls + 1
  /\ rcall' = [rcall EXCEPT ![c] =
                 [IdleCall EXCEPT !.no = calls + 1, !.before = tables,
                                  !.op = "deleteExercise",
                                  !.pc = "libReadExisting", !.id = id,
                                  !.existing = NoExercise]]
  /\ UNCHANGED <<tables, inTransaction, txSnapshot, foreignKeys, clock,
                 nextId, failCount>>

HasUpdates_NameOnly(data) == data.hasName

\* updateExercise builds no UPDATE when no field is supplied
HasUpdates(data) ==
  data.hasName \/ data.hasBodyPart \/ data.hasVideoUrl \/ data.hasLastUsed

\* updateExercise / deleteExercise: getExerciseById has returned
LibReadExisting(c) ==
  /\ rcall[c].pc = "libReadExisting"
  /\ \E io \in BOOLEAN :
       /\ IoResult(io)
       /\ LET existing == GetExerciseById(tables, rcall[c].id)
          IN rcall' = [rcall EXCEPT ![c] =
               IF io THEN Settle(c, "rejected", "io", "libReadExisting")
               ELSE IF ~existing.found
               THEN Settle(c, "rejected", "notFound", "libReadExisting")
               ELSE IF rcall[c].op = "deleteExercise"
               THEN [@ EXCEPT !.pc = "libDelete", !.existing = existing]
               ELSE [@ EXCEPT !.existing = existing,
                              !.pc = IF HasUpdates(rcall[c].input)
                                     THEN "libUpdate" ELSE "libReadBack"]]
  /\ UNCHANGED <<tables, inTransaction, txSnapshot, foreignKeys, clock, nextId,
                 calls>>

\* updateExercise: the UPDATE and its catch block
LibUpdate(c) ==
  /\ rcall[c].pc = "libUpdate"
  /\ \E io \in BOOLEAN :
       /\ IoResult(io)
       /\ LET cr == rcall[c]
              r == Executed(io, UpdateLibraryExercise(tables, cr.id, cr.input))
              newName == IF cr.input.hasName THEN cr.input.name
                         ELSE cr.existing.name
              newBodyPart == IF cr.input.hasBodyPart THEN cr.input.bodyPart
                             ELSE cr.existing.bodyPart
          IN /\ tables' = r.t
             /\ rcall' = [rcall EXCEPT ![c] =
                  IF r.ok THEN [cr EXCEPT !.pc = "libReadBack"]
                  ELSE IF r.err = "unique"
                  THEN [Settle(c, "rejected", "alreadyExists", "libUpdate")
                          EXCEPT !.msg = AlreadyExists(newName, newBodyPart)]
                  ELSE Settle(c, "rejected", r.err, "libUpdate")]
  /\ UNCHANGED <<inTransaction, txSnapshot, foreignKeys, clock, nextId, calls>>

\* deleteExercise: the DELETE
LibDelete(c) ==
  /\ rcall[c].pc = "libDelete"
  /\ \E io \in BOOLEAN :
       /\ IoResult(io)
       /\ LET r == Executed(io,
                     DeleteLibraryExercise(tables, rcall[c].id, foreignKeys))
          IN /\ tables' = r.t
             /\ rcall' = [rcall EXCEPT ![c] =
                  IF r.ok THEN Settle(c, "ok", "none", "none")
                  ELSE Settle(c, "rejected", r.err, "libDelete")]
  /\ UNCHANGED <<inTransaction, txSnapshot, foreignKeys, clock, nextId, calls>>

\* markExerciseAsUsed: up to the SELECT
MarkExerciseAsUsedCall(c, exerciseName) ==
  /\ rcall[c].pc \in {"idle", "done"}
  /\ calls < MaxRequests
  /\ calls' = calls + 1
  /\ rcall' = [rcall EXCEPT ![c] =
                 [IdleCall EXCEPT !.no = calls + 1, !.before = tables,
                                  !.op = "markExerciseAsUsed",
                                  !.pc = "libSelect", !.input = exerciseName,
                                  !.now = GetCurrentTimestamp,
                                  !.existing = NoExercise]]
  /\ UNCHANGED <<tables, inTransaction, txSnapshot, foreignKeys, clock,
                 nextId, failCount>>

\* markExerciseAsUsed: the SELECT has returned
LibSelect(c) ==
  /\ rcall[c].pc = "libSelect"
  /\ \E io \in BOOLEAN :
       /\ IoResult(io)
       /\ LET first == FirstByName(tables, rcall[c].input)
          IN rcall' = [rcall EXCEPT ![c] =
               IF io THEN Settle(c, "rejected", "io", "libSelect")
               ELSE IF first = Null THEN Settle(c, "ok", "none", "none")
               ELSE [@ EXCEPT !.pc = "libMark", !.exId = first]]
  /\ UNCHANGED <<tables, inTransaction, txSnapshot, foreignKeys, clock, nextId,
                 calls>>

\* updateLastUsed: up to its UPDATE
UpdateLastUsedCall(c, id, timestamp) ==
  /\ rcall[c].pc \in {"idle", "done"}
  /\ calls < MaxRequests
  /\ calls' = calls + 1
  /\ rcall' = [rcall EXCEPT ![c] =
                 [IdleCall EXCEPT !.no = calls + 1, !.before = tables,
                                  !.op = "updateLastUsed",
                                  !.pc = "libMark",
                                  !.exId = id, !.now = timestamp,
                                  !.existing = NoExercise]]
  /\ UNCHANGED <<tables, inTransaction, txSnapshot, foreignKeys, clock,
                 nextId, failCount>>

\* markExerciseAsUsed / updateLastUsed: UPDATE exercises SET lastUsed
LibMark(c) ==
  /\ rcall[c].pc = "libMark"
  /\ \E io \in BOOLEAN :
       /\ IoResult(io)
       /\ LET r == Executed(io,
                     UpdateLastUsedRow(tables, rcall[c].exId, rcall[c].now))
          IN /\ tables' = r.t
             /\ rcall' = [rcall EXCEPT ![c] =
                  IF r.ok THEN Settle(c, "ok", "none", "none")
                  ELSE Settle(c, "rejected", r.err, "libMark")]
  /\ UNCHANGED <<inTransaction, txSnapshot, foreignKeys, clock, nextId, calls>>

\* getExerciseById as a call of its own: up to its query
GetExerciseByIdCall(c, id) ==
  /\ rcall[c].pc \in {"idle", "done"}
  /\ calls < MaxRequests
  /\ calls' = calls + 1
  /\ rcall' = [rcall EXCEPT ![c] =
                 [IdleCall EXCEPT !.no = calls + 1, !.before = tables,
                                  !.op = "getExerciseById",
                                  !.pc = "libQuery", !.id = id,
                                  !.existing = NoExercise,
                                  !.result = NoExercise]]
  /\ UNCHANGED <<tables, inTransaction, txSnapshot, foreignKeys, clock,
                 nextId, failCount>>

\* getExerciseById: the query has returned
LibQueryReturn(c) ==
  /\ rcall[c].pc = "libQuery"
  /\ \E io \in BOOLEAN :
       /\ IoResult(io)
       /\ rcall' = [rcall EXCEPT ![c] =
            IF io THEN Settle(c, "rejected", "io", "libQuery")
            ELSE [Settle(c, "ok", "none", "none") EXCEPT
                    !.result = GetExerciseById(tables, rcall[c].id)]]
  /\ UNCHANGED <<tables, inTransaction, txSnapshot, foreignKeys, clock, nextId,
                 calls>>

LibraryInit ==
  /\ MgrReadyInit
  /\ tables = SeedHistory
  /\ inTransaction = FALSE
  /\ txSnapshot = EmptyTables
  /\ foreignKeys \in BOOLEAN
  /\ clock = 0
  /\ nextId = 5
  /\ rcall = [c \in Callers |-> IdleCall]

\* one caller working on the exercise library, one call after the other
LibraryNext ==
  /\ UNCHANGED mgrState
  /\ \/ Tick
     \/ \E c \in Callers :
          \/ /\ Quiescent
             /\ \/ \E data \in ExerciseData : CreateExerciseCall(c, data)
                \/ \E id \in Ids(tables.exercises) \cup {UnknownId},
                      data \in ExerciseUpdates : UpdateExerciseCall(c, id, data)
                \/ \E id \in Ids(tables.exercises) \cup {UnknownId} :
                     DeleteExerciseCall(c, id)
                \/ \E n \in Names : MarkExerciseAsUsedCall(c, n)
                \/ \E id \in Ids(tables.exercises) \cup {UnknownId} :
                     UpdateLastUsedCall(c, id, clock)
                \/ \E id \in Ids(tables.exercises) \cup {UnknownId} :
                     GetExerciseByIdCall(c, id)
          \/ LibInsert(c)
          \/ LibReadBack(c)
          \/ LibReadExisting(c)
          \/ LibUpdate(c)
          \/ LibDelete(c)
          \/ LibSelect(c)
          \/ LibMark(c)
          \/ LibQueryReturn(c)

SpecLibrary == LibraryInit /\ [][LibraryNext]_vars

\* ---------------------------------------------------------------------
\* Both repositories on one store: the methods that take the id of a stored
\* session or library exercise.  The ids tried are those of the rows the
\* store starts with, which a delete turns into ids of no row, and one id
\* that never names a row.
\* ---------------------------------------------------------------------

SessionIdsTried == Ids(SeedHistory.workout_sessions) \cup {UnknownId}

ExerciseIdsTried == Ids(SeedHistory.exercises) \cup {UnknownId}

StoreNext ==
  /\ UNCHANGED mgrState
  /\ \E c \in Callers :
       \/ /\ Quiescent
          /\ \/ \E id \in SessionIdsTried, data \in UpdateInputs :
                  UpdateSessionCall(c, id, data)
             \/ \E id \in SessionIdsTried : DeleteSessionCall(c, id)
             \/ \E id \in SessionIdsTried : GetSessionByIdCall(c, id)
             \/ \E id \in ExerciseIdsTried, data \in ExerciseUpdates :
                  UpdateExerciseCall(c, id, data)
             \/ \E id \in ExerciseIdsTried : DeleteExerciseCall(c, id)
             \/ \E id \in ExerciseIdsTried : GetExerciseByIdCall(c, id)
       \/ ReadExisting(c)
       \/ Begin(c)
       \/ DeleteExercisesStep(c)
       \/ InsertExerciseStep(c)
       \/ InsertSetStep(c)
       \/ UpdateSessionStep(c)
       \/ Commit(c)
       \/ ReadBack(c)
       \/ Rollback(c)
       \/ DeleteSessionStep(c)
       \/ QuerySessionReturn(c)
       \/ LibReadExisting(c)
       \/ LibUpdate(c)
       \/ LibReadBack(c)
       \/ LibDelete(c)
       \/ LibQueryReturn(c)

SpecStore == SessionInit /\ [][StoreNext]_vars

\* ---------------------------------------------------------------------
\* The read methods of the exercise library that return lists:
\* getAllExercises, getExercisesByBodyPart and searchExercises, on a library
\* of a few entries drawn from a catalogue whose names hold the characters
\* LIKE treats specially.
\* ---------------------------------------------------------------------

Percent == 37

Underscore == 95

Backslash == 92

\* "BP", "bp", "B%", "B_" and "\P"
CatalogEntries ==
  {[id |-> 1, name |-> NameUpper, bodyPart |-> "chest", videoUrl |-> Null,
    createdAt |-> 0, lastUsed |-> Null],
   [id |-> 2, name |-> NameLower, bodyPart |-> "chest", videoUrl |-> Null,
    createdAt |-> 0, lastUsed |-> 1],
   [id |-> 3, name |-> <<66, Percent>>, bodyPart |-> "legs", videoUrl |-> Null,
    createdAt |-> 0, lastUsed |-> 0],
   [id |-> 4, name |-> <<66, Underscore>>, bodyPart |-> "legs",
    videoUrl |-> Null, createdAt |-> 0, lastUsed |-> Null],
   [id |-> 5, name |-> <<Backslash, 80>>, bodyPart |-> "chest",
    videoUrl |-> Null, createdAt |-> 0, lastUsed |-> 1]}

\* the query arguments of searchExercises
SearchQueries ==
  {<<>>, <<98>>, <<80>>, <<Percent>>, <<Underscore>>, <<Backslash>>,
   <<66, Underscore>>, <<112, 98>>}

\* ORDER BY lastUsed DESC: SQLite sorts NULL before every value, so in
\* descending order the rows without lastUsed come last
LastUsedDescending_NullsFirst(a, b) ==
  \/ a.lastUsed = Null
  \/ b.lastUsed # Null /\ a.lastUsed >= b.lastUsed

LastUsedDescending(a, b) ==
  \/ b.lastUsed = Null
  \/ a.lastUsed # Null /\ a.lastUsed >= b.lastUsed

\* the orders in which the engine may return rows under ORDER BY lastUsed
\* DESC: rows of equal lastUsed come in an order SQL leaves open
RECURSIVE ExercisesByLastUsed(_)
ExercisesByLastUsed(rows) ==
  IF rows = {} THEN {<<>>}
  ELSE UNION {{<<m>> \o rest : rest \in ExercisesByLastUsed(rows \ {m})} :
                m \in {r \in rows : \A x \in rows : LastUsedDescending(r, x)}}

\* String.prototype.replace with a global pattern of one character
RECURSIVE ReplaceAll(_, _, _)
ReplaceAll(text, ch, with) ==
  IF text = <<>> THEN <<>>
  ELSE (IF Head(text) = ch THEN with ELSE <<Head(text)>>)
         \o ReplaceAll(Tail(text), ch, with)

\* the three replace calls of searchExercises, in their order
EscapeLike_None(query) == query

EscapeLike(query) ==
  ReplaceAll(ReplaceAll(ReplaceAll(query, Backslash, <<Backslash, Backslash>>),
                        Percent, <<Backslash, Percent>>),
             Underscore, <<Backslash, Underscore>>)

\* `%${escapedQuery}%`
SearchPattern(query) == <<Percent>> \o EscapeLike(query) \o <<Percent>>

\* text LIKE pattern ESCAPE '\' as SQLite evaluates it: % matches any run of
\* characters, _ one character, the character after a backslash itself, and
\* ASCII letters match in either case
RECURSIVE LikeMatch(_, _)
LikeMatch(pattern, text) ==
  IF pattern = <<>> THEN text = <<>>
  ELSE IF Head(pattern) = Percent
  THEN \E k \in 0..Len(text) :
         LikeMatch(Tail(pattern), SubSeq(text, k + 1, Len(text)))
  ELSE IF Head(pattern) = Underscore
  THEN text # <<>> /\ LikeMatch(Tail(pattern), Tail(text))
  ELSE IF Head(pattern) = Backslash
  THEN /\ Len(pattern) >= 2
       /\ text # <<>>
       /\ NoCase(<<pattern[2]>>) = NoCase(<<Head(text)>>)
       /\ LikeMatch(Tail(Tail(pattern)), Tail(text))
  ELSE /\ text # <<>>
       /\ NoCase(<<Head(pattern)>>) = NoCase(<<Head(text)>>)
       /\ LikeMatch(Tail(pattern), Tail(text))

\* the arguments of the three list methods
AllExercises == [kind |-> "all", bodyPart |-> "", query |-> <<>>]

ByBodyPart(bodyPart) == [kind |-> "bodyPart", bodyPart |-> bodyPart,
                         query |-> <<>>]

BySearch(query) == [kind |-> "search", bodyPart |-> "", query |-> query]

\* the rows the WHERE clause of the method selects
SelectedExercises(t, sel) ==
  IF sel.kind = "all" THEN t.exercises
  ELSE IF sel.kind = "bodyPart"
  THEN {r \in t.exercises : r.bodyPart = sel.bodyPart}
  ELSE {r \in t.exercises : LikeMatch(SearchPattern(sel.query), r.name)}

\* getAllExercises: up to its query
GetAllExercisesCall(c) ==
  /\ rcall[c].pc \in {"idle", "done"}
  /\ calls < MaxRequests
  /\ calls' = calls + 1
  /\ rcall' = [rcall EXCEPT ![c] =
                 [IdleCall EXCEPT !.no = calls + 1, !.before = tables,
                                  !.op = "getAllExercises",
                                  !.pc = "libList", !.input = AllExercises,
                                  !.existing = NoExercise,
                                  !.result = NoExercise]]
  /\ UNCHANGED <<tables, inTransaction, txSnapshot, foreignKeys, clock,
                 nextId, failCount>>

\* getExercisesByBodyPart: up to its query
GetExercisesByBodyPartCall(c, bodyPart) ==
  /\ rcall[c].pc \in {"idle", "done"}
  /\ calls < MaxRequests
  /\ calls' = calls + 1
  /\ rcall' = [rcall EXCEPT ![c] =
                 [IdleCall EXCEPT !.no = calls + 1, !.before = tables,
                                  !.op = "getExercisesByBodyPart",
                                  !.pc = "libList",
                                  !.input = ByBodyPart(bodyPart),
                                  !.existing = NoExercise,
                                  !.result = NoExercise]]
  /\ UNCHANGED <<tables, inTransaction, txSnapshot, foreignKeys, clock,
                 nextId, failCount>>

\* searchExercises: up to its query
SearchExercisesCall(c, query) ==
  /\ rcall[c].pc \in {"idle", "done"}
  /\ calls < MaxRequests
  /\ calls' = calls + 1
  /\ rcall' = [rcall EXCEPT ![c] =
                 [IdleCall EXCEPT !.no = calls + 1, !.before = tables,
                                  !.op = "searchExercises",
                                  !.pc = "libList", !.input = BySearch(query),
                                  !.existing = NoExercise,
                                  !.result = NoExercise]]
  /\ UNCHANGED <<tables, inTransaction, txSnapshot, foreignKeys, clock,
                 nextId, failCount>>

\* the query of a list method has returned; rowToExercise keeps every column
LibListReturn(c) ==
  /\ rcall[c].pc = "libList"
  /\ \E io \in BOOLEAN :
       /\ IoResult(io)
       /\ \E rows \in ExercisesByLastUsed(
                        SelectedExercises(tables, rcall[c].input)) :
            rcall' = [rcall EXCEPT ![c] =
              IF io THEN Settle(c, "rejected", "io", "libList")
              ELSE [Settle(c, "ok", "none", "none") EXCEPT !.list = rows]]
  /\ UNCHANGED <<tables, inTransaction, txSnapshot, foreignKeys, clock, nextId,
                 calls>>

\* a library of at most MaxLibrary catalogue entries
CatalogInit ==
  /\ MgrReadyInit
  /\ \E lib \in SUBSET CatalogEntries :
       /\ Cardinality(lib) <= MaxLibrary
       /\ tables = [EmptyTables EXCEPT !.exercises = lib]
  /\ inTransaction = FALSE
  /\ txSnapshot = EmptyTables
  /\ foreignKeys \in BOOLEAN
  /\ clock = 0
  /\ nextId = 6
  /\ rcall = [c \in Callers |-> IdleCall]

CatalogNext ==
  /\ UNCHANGED mgrState
  /\ \E c \in Callers :
       \/ /\ Quiescent
          /\ \/ GetAllExercisesCall(c)
             \/ \E bodyPart \in BodyParts : GetExercisesByBodyPartCall(c, bodyPart)
             \/ \E query \in SearchQueries : SearchExercisesCall(c, query)
       \/ LibListReturn(c)

SpecCatalog == CatalogInit /\ [][CatalogNext]_vars

\* --------------------------------------------- DatabaseManager: backup
\* the object a token of a JSON text may carry: a database export
NoExport == [database |-> "", tables |-> EmptyTables]

\* a JSON text is a sequence of tokens; a "members" token stands for the
\* member list of an object and carries the export it serialises
Tok(k) == [k |-> k, v |-> NoExport]

\* JSON.stringify of an export object
JsonStringify(export) ==
  <<Tok("{"), [k |-> "members", v |-> export], Tok("}")>>

RECURSIVE ParseValue(_, _)
RECURSIVE ParseElements(_, _)

\* JSON.parse, reading one value of text s at position i: the position after
\* the value, 0 for a SyntaxError
ParseValue(s, i) ==
  IF i > Len(s) THEN 0
  ELSE CASE s[i].k = "null" -> i + 1
         [] s[i].k = "{" ->
              IF i + 1 <= Len(s) /\ s[i + 1].k = "}" THEN i + 2
              ELSE IF /\ i + 2 <= Len(s)
                      /\ s[i + 1].k = "members"
                      /\ s[i + 2].k = "}"
              THEN i + 3
              ELSE 0
         [] s[i].k = "[" ->
              IF i + 1 <= Len(s) /\ s[i + 1].k = "]" THEN i + 2
              ELSE ParseElements(s, i + 1)
         [] OTHER -> 0

\* the elements of an array and its closing bracket
ParseElements(s, i) ==
  LET j == ParseValue(s, i)
  IN IF j = 0 \/ j > Len(s) THEN 0
     ELSE IF s[j].k = "]" THEN j + 1
     ELSE IF s[j].k = "," THEN ParseElements(s, j + 1)
     ELSE 0

\* JSON.parse(jsonString) returns; it throws a SyntaxError otherwise
JsonParses(s) == ParseValue(s, 1) = Len(s) + 1

\* the texts of at most MaxLen tokens handed to importFromJson
RECURSIVE TextsOfLength(_)
TextsOfLength(n) ==
  IF n = 0 THEN {<<>>}
  ELSE {Append(t, Tok(k)) : t \in TextsOfLength(n - 1),
                            k \in {"[", "]", ",", "null"}}

JsonTexts == UNION {TextsOfLength(n) : n \in 0..MaxLen}

\* a store that holds library exercises only
LibraryOnly == [EmptyTables EXCEPT !.exercises = SeedLibrary]

\* CapacitorSQLite.exportToJson in mode 'full': every table of the named
\* database with its rows
PluginExportToJson(database, t) ==
  [export |-> [database |-> database, tables |-> t]]

\* backups taken earlier
Backups ==
  {JsonStringify(PluginExportToJson(DefaultDbName, t).export) :
     t \in {SeedHistory, LibraryOnly, EmptyTables}}

\* CapacitorSQLite.importFromJson accepts a JsonSQLite object only
IsJsonSQLite(s) ==
  /\ Len(s) = 3
  /\ s[1].k = "{" /\ s[2].k = "members" /\ s[3].k = "}"
  /\ s[2].v.database # ""

\* the tables in the order the import writes them
ImportOrder == <<"exercises", "workout_sessions", "workout_exercises", "sets">>

\* the store once the import has replaced the first n tables by the document's
ImportedUpTo(t, d, n) ==
  [name \in DOMAIN t |->
     IF \E i \in 1..n : ImportOrder[i] = name THEN d[name] ELSE t[name]]

\* the outer catch block of importFromJson
ImportErrorMessage_NoSyntaxCase(error) == "importFailed"

ImportErrorMessage(error) ==
  IF error = "SyntaxError" THEN "invalidJson" ELSE "importFailed"

\* the inner catch block of importFromJson is entered
ToImportRollback_Rethrow(c, failedAt) ==
  Settle(c, "rejected", ImportErrorMessage("Error"), failedAt)

ToImportRollback(c, failedAt) ==
  [rcall[c] EXCEPT !.pc = "importRollback", !.failedAt = failedAt]

\* importFromJson: the guard, JSON.parse and the call of beginTransaction
ImportFromJsonCall(c, jsonString) ==
  /\ rcall[c].pc \in {"idle", "done"}
  /\ calls < MaxRequests
  /\ calls' = calls + 1
  /\ LET cr == [IdleCall EXCEPT !.no = calls + 1, !.op = "importFromJson",
                                !.input = jsonString, !.before = tables]
     IN rcall' = [rcall EXCEPT ![c] =
          IF db = 0
          THEN [cr EXCEPT !.pc = "done", !.status = "rejected",
                          !.err = "notInitialized", !.failedAt = "guard"]
          ELSE IF ~JsonParses(jsonString)
          THEN [cr EXCEPT !.pc = "done", !.status = "rejected",
                          !.err = ImportErrorMessage("SyntaxError"),
                          !.failedAt = "parse"]
          ELSE [cr EXCEPT !.pc = "importBegin"]]
  /\ UNCHANGED <<tables, inTransaction, txSnapshot, foreignKeys, clock,
                 nextId, failCount>>

\* importFromJson: beginTransaction has returned
ImportBegin(c) ==
  /\ rcall[c].pc = "importBegin"
  /\ \E io \in BOOLEAN :
       /\ IoResult(io)
       /\ IF io \/ inTransaction
          THEN /\ rcall' = [rcall EXCEPT ![c] =
                   Settle(c, "rejected", ImportErrorMessage("Error"), "begin")]
               /\ UNCHANGED <<inTransaction, txSnapshot>>
          ELSE /\ inTransaction' = TRUE
               /\ txSnapshot' = tables
               /\ rcall' = [rcall EXCEPT ![c].pc = "pluginImport",
                                         ![c].began = TRUE]
  /\ UNCHANGED <<tables, foreignKeys, clock, nextId, calls>>

\* importFromJson: CapacitorSQLite.importFromJson has returned or thrown; it
\* writes inside the transaction begun on the connection
PluginImport(c) ==
  /\ rcall[c].pc = "pluginImport"
  /\ LET doc == rcall[c].input
     IN IF ~IsJsonSQLite(doc)
        THEN /\ rcall' = [rcall EXCEPT ![c] =
                  ToImportRollback(c, "pluginImport")]
             /\ UNCHANGED <<tables, failCount>>
        ELSE \E io \in BOOLEAN :
               /\ IoResult(io)
               /\ IF io
                  THEN \E n \in 0..Len(ImportOrder) :
                         /\ tables' = ImportedUpTo(tables, doc[2].v.tables, n)
                         /\ rcall' = [rcall EXCEPT ![c] =
                              ToImportRollback(c, "pluginImport")]
                  ELSE /\ tables' = ImportedUpTo(tables, doc[2].v.tables,
                                                 Len(ImportOrder))
                       /\ rcall' = [rcall EXCEPT ![c].pc = "importCommit"]
  /\ UNCHANGED <<inTransaction, txSnapshot, foreignKeys, clock, nextId, calls>>

\* importFromJson: commitTransaction has returned
ImportCommit(c) ==
  /\ rcall[c].pc = "importCommit"
  /\ \E io \in BOOLEAN :
       /\ IoResult(io)
       /\ IF io \/ ~inTransaction
          THEN /\ rcall' = [rcall EXCEPT ![c] = ToImportRollback(c, "commit")]
               /\ UNCHANGED inTransaction
          ELSE /\ inTransaction' = FALSE
               /\ rcall' = [rcall EXCEPT ![c] = Settle(c, "ok", "none", "none")]
  /\ UNCHANGED <<tables, txSnapshot, foreignKeys, clock, nextId, calls>>

\* importFromJson: rollbackTransaction has returned and the error is rethrown
ImportRollback(c) ==
  /\ rcall[c].pc = "importRollback"
  /\ IF inTransaction
     THEN /\ tables' = txSnapshot
          /\ inTransaction' = FALSE
     ELSE UNCHANGED <<tables, inTransaction>>
  /\ rcall' = [rcall EXCEPT ![c] =
       Settle(c, "rejected", ImportErrorMessage("Error"), rcall[c].failedAt)]
  /\ UNCHANGED <<txSnapshot, foreignKeys, clock, nextId, calls, failCount>>

\* exportToJson: the guard and the call of CapacitorSQLite.exportToJson
ExportToJsonCall(c) ==
  /\ rcall[c].pc \in {"idle", "done"}
  /\ calls < MaxRequests
  /\ calls' = calls + 1
  /\ LET cr == [IdleCall EXCEPT !.no = calls + 1, !.op = "exportToJson",
                                !.before = tables]
     IN rcall' = [rcall EXCEPT ![c] =
          IF db = 0
          THEN [cr EXCEPT !.pc = "done", !.status = "rejected",
                          !.err = "notInitialized", !.failedAt = "guard"]
          ELSE [cr EXCEPT !.pc = "pluginExport"]]
  /\ UNCHANGED <<tables, inTransaction, txSnapshot, foreignKeys, clock,
                 nextId, failCount>>

\* exportToJson: the plugin has returned; JSON.stringify(exportResult.export)
PluginExport(c) ==
  /\ rcall[c].pc = "pluginExport"
  /\ \E io \in BOOLEAN :
       /\ IoResult(io)
       /\ rcall' = [rcall EXCEPT ![c] =
            IF io THEN Settle(c, "rejected", "io", "pluginExport")
            ELSE [Settle(c, "ok", "none", "none") EXCEPT
                    !.doc = JsonStringify(
                              PluginExportToJson(dbName, tables).export)]]
  /\ UNCHANGED <<tables, inTransaction, txSnapshot, foreignKeys, clock, nextId,
                 calls>>

\* DELETE FROM sets; workout_exercises; workout_sessions; exercises
DeleteAllRows_KeepLibrary(t) ==
  SqlOk([EmptyTables EXCEPT !.exercises = t.exercises])

DeleteAllRows(t) ==
  SqlOk([t EXCEPT !.sets = {}, !.workout_exercises = {},
                  !.workout_sessions = {}, !.exercises = {}])

ClearAllDataCall_Unguarded(c) ==
  /\ rcall[c].pc \in {"idle", "done"}
  /\ calls < MaxRequests
  /\ calls' = calls + 1
  /\ rcall' = [rcall EXCEPT ![c] =
       [IdleCall EXCEPT !.no = calls + 1, !.op = "clearAllData",
                        !.before = tables, !.pc = "clearExecute"]]
  /\ UNCHANGED <<tables, inTransaction, txSnapshot, foreignKeys, clock,
                 nextId, failCount>>

\* clearAllData: the guard and the call of execute
ClearAllDataCall(c) ==
  /\ rcall[c].pc \in {"idle", "done"}
  /\ calls < MaxRequests
  /\ calls' = calls + 1
  /\ LET cr == [IdleCall EXCEPT !.no = calls + 1, !.op = "clearAllData",
                                !.before = tables]
     IN rcall' = [rcall EXCEPT ![c] =
          IF db = 0
          THEN [cr EXCEPT !.pc = "done", !.status = "rejected",
                          !.err = "notInitialized", !.failedAt = "guard"]
          ELSE [cr EXCEPT !.pc = "clearExecute"]]
  /\ UNCHANGED <<tables, inTransaction, txSnapshot, foreignKeys, clock,
                 nextId, failCount>>

\* clearAllData: execute has returned
ClearExecute(c) ==
  /\ rcall[c].pc = "clearExecute"
  /\ \E io \in BOOLEAN :
       /\ IoResult(io)
       /\ LET r == Executed(io, DeleteAllRows(tables))
          IN /\ tables' = r.t
             /\ rcall' = [rcall EXCEPT ![c] =
                  IF r.ok THEN Settle(c, "ok", "none", "none")
                  ELSE Settle(c, "rejected", r.err, "clearExecute")]
  /\ UNCHANGED <<inTransaction, txSnapshot, foreignKeys, clock, nextId, calls>>

\* a manager that was never initialized, or an initialized one over a store
\* with recorded history
BackupInit ==
  \/ FreshInit
  \/ /\ MgrReadyInit
     /\ tables = SeedHistory
     /\ inTransaction = FALSE
     /\ txSnapshot = EmptyTables
     /\ foreignKeys \in BOOLEAN
     /\ clock = 0
     /\ nextId = 5
     /\ rcall = [c \in Callers |-> IdleCall]

\* one caller of the backup methods of the manager, one call after the other
BackupNext ==
  /\ UNCHANGED mgrState
  /\ \E c \in Callers :
       \/ /\ Quiescent
          /\ \/ \E jsonString \in JsonTexts \cup Backups :
                  ImportFromJsonCall(c, jsonString)
             \/ ExportToJsonCall(c)
             \/ ClearAllDataCall(c)
       \/ ImportBegin(c)
       \/ PluginImport(c)
       \/ ImportCommit(c)
       \/ ImportRollback(c)
       \/ PluginExport(c)
       \/ ClearExecute(c)

SpecBackup == BackupInit /\ [][BackupNext]_vars

\* ---------------------------------------------------------------------
\* The writes of WorkoutSessionStorage with inputs that carry a maxWeight of
\* their own, an exercise without sets, and sets the CHECK constraints
\* refuse
\* ---------------------------------------------------------------------

\* a set the CHECK(weight >= 0) constraint refuses
SetNegative ==
  [id |-> 4, exerciseId |-> 3, weight |-> -5, reps |-> 8, completedAt |-> 1,
   order |-> 0]

\* WorkoutExercise.maxWeight as a caller may supply it: not the maximum of
\* the sets
StaleMaxWeight == 5

HeavyExercise ==
  [id |-> 3, sessionId |-> 2, exerciseId |-> Null, exerciseName |-> NameUpper,
   bodyPart |-> "chest", sets |-> <<SetA, SetB>>, maxWeight |-> StaleMaxWeight,
   order |-> 0]

NoSetsExercise ==
  [id |-> 3, sessionId |-> 2, exerciseId |-> Null, exerciseName |-> NameKana,
   bodyPart |-> "legs", sets |-> <<>>, maxWeight |-> StaleMaxWeight,
   order |-> 1]

NegativeExercise ==
  [id |-> 3, sessionId |-> 2, exerciseId |-> Null, exerciseName |-> NameUpper,
   bodyPart |-> "chest", sets |-> <<SetNegative>>, maxWeight |-> Null,
   order |-> 0]

WriteExercises ==
  {<<HeavyExercise, NoSetsExercise>>, <<NegativeExercise>>, <<InvalidExercise>>}

WriteSessions ==
  {[date |-> 2, totalTime |-> Null, exercises |-> es] : es \in WriteExercises}

WriteUpdates ==
  {[hasDate |-> TRUE, date |-> 3, hasTotalTime |-> TRUE, totalTime |-> 4200,
    hasExercises |-> TRUE, exercises |-> es] : es \in WriteExercises}
  \cup
  {[hasDate |-> TRUE, date |-> 3, hasTotalTime |-> FALSE, totalTime |-> Null,
    hasExercises |-> FALSE, exercises |-> <<>>]}

\* one caller issuing createSession, updateSession and deleteSession, each
\* call awaited before the next is made
WriteNext ==
  /\ UNCHANGED mgrState
  /\ \E c \in Callers :
       \/ /\ Quiescent
          /\ \/ \E session \in WriteSessions : CreateSessionCall(c, session)
             \/ \E id \in Ids(tables.workout_sessions), data \in WriteUpdates :
                  UpdateSessionCall(c, id, data)
             \/ \E id \in Ids(tables.workout_sessions) : DeleteSessionCall(c, id)
       \/ ReadExisting(c)
       \/ Begin(c)
       \/ InsertSessionStep(c)
       \/ DeleteExercisesStep(c)
       \/ InsertExerciseStep(c)
       \/ InsertSetStep(c)
       \/ UpdateSessionStep(c)
       \/ Commit(c)
       \/ ReadBack(c)
       \/ Rollback(c)
       \/ DeleteSessionStep(c)

SpecWrites == SessionInit /\ [][WriteNext]_vars

\* ---------------------------------------------------------------------
\* Repository calls that are not awaited: two callers whose calls overlap on
\* the one connection of the manager
\* ---------------------------------------------------------------------

Overlapping == {1, 2}

\* the calls the two callers make: sessions with a valid exercise and with
\* one whose second set breaks CHECK(reps >= 1), updates that replace the
\* exercises, and a library exercise whose name is not taken
OverlapSessions ==
  {s \in SessionInputs : s.exercises \in {<<BaseExercise>>, <<InvalidExercise>>}}

OverlapUpdates ==
  {u \in UpdateInputs : u.hasExercises /\ ~u.hasDate /\ u.exercises # <<>>}

OverlapExercises == {d \in ExerciseData : d.name = NameKana}

OverlapInit ==
  /\ MgrReadyInit
  /\ tables = SeedHistory
  /\ inTransaction = FALSE
  /\ txSnapshot = EmptyTables
  /\ foreignKeys \in BOOLEAN
  /\ clock = 0
  /\ nextId = 5
  /\ rcall = [c \in Overlapping |-> IdleCall]

OverlapNext ==
  /\ UNCHANGED mgrState
  /\ \E c \in Overlapping :
       \/ \E session \in OverlapSessions : CreateSessionCall(c, session)
       \/ \E id \in SessionIdsTried, data \in OverlapUpdates :
            UpdateSessionCall(c, id, data)
       \/ \E id \in SessionIdsTried : DeleteSessionCall(c, id)
       \/ \E data \in OverlapExercises : CreateExerciseCall(c, data)
       \/ ReadExisting(c)
       \/ Begin(c)
       \/ InsertSessionStep(c)
       \/ DeleteExercisesStep(c)
       \/ InsertExerciseStep(c)
       \/ InsertSetStep(c)
       \/ UpdateSessionStep(c)
       \/ Commit(c)
       \/ ReadBack(c)
       \/ Rollback(c)
       \/ DeleteSessionStep(c)
       \/ LibInsert(c)
       \/ LibReadBack(c)

SpecOverlap == OverlapInit /\ [][OverlapNext]_vars

\* ------------------------------------------- close and the health checks
\* close(): the finally block
CloseFinally_KeepsInitialized ==
  /\ db' = 0
  /\ UNCHANGED isInitialized
  /\ initializationPromise' = 0

CloseFinally ==
  /\ db' = 0
  /\ isInitialized' = FALSE
  /\ initializationPromise' = 0

\* close(), first synchronous segment: without a handle there is nothing to do
CloseCall(p) ==
  /\ proc[p].pc = "idle"
  /\ IF db = 0
     THEN /\ outcomes' = outcomes \cup
                           {[op |-> "close", status |-> "ok", handle |-> 0]}
          /\ UNCHANGED proc
     ELSE /\ proc' = [proc EXCEPT ![p] = [op |-> "close", pc |-> "close",
                                          prom |-> 0, handle |-> db]]
          /\ UNCHANGED outcomes
  /\ UNCHANGED <<db, dbName, isInitialized, initializationPromise, promState,
                 calls, createCount, openCount, openHandles, failCount,
                 tablesExist, schemaVersionRows>>

\* close(): db.close() has returned or thrown; the finally block runs
CloseAfterClose(p) ==
  /\ proc[p].pc = "close"
  /\ \E ok \in BOOLEAN :
       /\ PluginResult(ok)
       /\ openHandles' = IF ok THEN openHandles \ {proc[p].handle}
                               ELSE openHandles
       /\ Finish(p, IF ok THEN "ok" ELSE "rejected", 0)
  /\ CloseFinally
  /\ proc' = [proc EXCEPT ![p] = Idle]
  /\ UNCHANGED <<dbName, promState, calls, createCount, openCount, tablesExist,
                 schemaVersionRows>>

\* SELECT version FROM schema_version ORDER BY version DESC LIMIT 1, and the
\* `return 0` for an empty result
HighestVersion(rows) ==
  IF rows = {} THEN 0 ELSE CHOOSE v \in rows : \A w \in rows : w <= v

\* a query on the handle throws: an I/O failure, a connection that is not
\* open
QueryThrows(io) == io \/ db \notin openHandles

\* getSchemaVersion: the guard and the call of query
GetSchemaVersionCall(c) ==
  /\ rcall[c].pc \in {"idle", "done"}
  /\ LET cr == [IdleCall EXCEPT !.no = calls, !.op = "getSchemaVersion"]
     IN rcall' = [rcall EXCEPT ![c] =
          IF db = 0
          THEN [cr EXCEPT !.pc = "done", !.status = "rejected",
                          !.err = "notInitialized", !.failedAt = "guard"]
          ELSE [cr EXCEPT !.pc = "schemaVersion"]]
  /\ UNCHANGED <<failCount, calls>>

\* getSchemaVersion: query has returned
GetSchemaVersionReturn(c) ==
  /\ rcall[c].pc = "schemaVersion"
  /\ \E io \in BOOLEAN :
       /\ IoResult(io)
       /\ rcall' = [rcall EXCEPT ![c] =
            IF QueryThrows(io) \/ ~tablesExist
            THEN Settle(c, "rejected", "io", "schemaVersion")
            ELSE [Settle(c, "ok", "none", "none") EXCEPT
                    !.value = HighestVersion(schemaVersionRows)]]
  /\ UNCHANGED calls

\* verifySchemaIntegrity: requiredTables
RequiredTables ==
  <<"schema_version", "workout_sessions", "workout_exercises", "sets",
    "exercises">>

\* the tables of the store: CREATE_TABLES_SQL creates the five of them in one
\* execute
ExistingTables ==
  IF tablesExist THEN {RequiredTables[i] : i \in DOMAIN RequiredTables} ELSE {}

\* SELECT name FROM sqlite_master WHERE type='table' AND name=? gave a row
TableLookup_Always(tableName) == TRUE

TableLookup(tableName) == tableName \in ExistingTables

\* verifySchemaIntegrity: the guard, before the try block
VerifySchemaIntegrityCall(c) ==
  /\ rcall[c].pc \in {"idle", "done"}
  /\ LET cr == [IdleCall EXCEPT !.no = calls, !.op = "verifySchemaIntegrity"]
     IN rcall' = [rcall EXCEPT ![c] =
          IF db = 0
          THEN [cr EXCEPT !.pc = "done", !.status = "rejected",
                          !.err = "notInitialized", !.failedAt = "guard"]
          ELSE [cr EXCEPT !.pc = "verifyLookup", !.table = 1]]
  /\ UNCHANGED <<failCount, calls>>

\* verifySchemaIntegrity: one round of the loop; the catch block returns false
VerifyLookup(c) ==
  /\ rcall[c].pc = "verifyLookup"
  /\ \E io \in BOOLEAN :
       /\ IoResult(io)
       /\ rcall' = [rcall EXCEPT ![c] =
            IF QueryThrows(io)
            THEN [Settle(c, "ok", "io", "verifyLookup") EXCEPT
                    !.value = FALSE]
            ELSE IF ~TableLookup(RequiredTables[rcall[c].table])
            THEN [Settle(c, "ok", "none", "none") EXCEPT !.value = FALSE]
            ELSE IF rcall[c].table = Len(RequiredTables)
            THEN [Settle(c, "ok", "none", "none") EXCEPT !.value = TRUE]
            ELSE [rcall[c] EXCEPT !.table = @ + 1]]
  /\ UNCHANGED calls

\* the one client of the manager
Client == 1

\* no call of the manager is in progress
AllIdle == Quiescent /\ \A p \in Procs : proc[p].pc = "idle"

\* One client that awaits every call: initialize, getConnection, close and
\* the two health checks in any order, on a store that persists across close
LifecycleNext ==
  /\ UNCHANGED <<tables, inTransaction, txSnapshot, foreignKeys, clock, nextId>>
  /\ \/ /\ UNCHANGED rcall
        /\ \E p \in {Client} :
             \/ /\ AllIdle
                /\ \/ \E name \in DbNameArgs : InitializeCall(p, name)
                   \/ GetConnectionCall(p)
                   \/ CloseCall(p)
             \/ InitializeSteps(p)
             \/ GetConnectionStarterResumes(p)
             \/ CloseAfterClose(p)
     \/ /\ UNCHANGED mgrState
        /\ \E c \in Callers :
             \/ /\ AllIdle
                /\ \/ GetSchemaVersionCall(c)
                   \/ VerifySchemaIntegrityCall(c)
             \/ GetSchemaVersionReturn(c)
             \/ VerifyLookup(c)

SpecLifecycle == FreshInit /\ [][LifecycleNext]_vars

\* ---------------------------------------------------------------------
\* The methods of the manager that require a handle, called by one client
\* that awaits every call, on a manager that is fresh, initialized or closed
\* ---------------------------------------------------------------------

\* clearAllData, exportToJson, importFromJson, getSchemaVersion and
\* verifySchemaIntegrity
GuardedNext ==
  \/ /\ UNCHANGED storeVars
     /\ \E p \in {Client} :
          \/ /\ AllIdle
             /\ \/ \E name \in {""} : InitializeCall(p, name)
                \/ CloseCall(p)
          \/ InitializeSteps(p)
          \/ CloseAfterClose(p)
  \/ /\ UNCHANGED mgrState
     /\ \E c \in Callers :
          \/ /\ AllIdle
             /\ \/ \E jsonString \in JsonTexts \cup Backups :
                     ImportFromJsonCall(c, jsonString)
                \/ ExportToJsonCall(c)
                \/ ClearAllDataCall(c)
          \/ ImportBegin(c)
          \/ PluginImport(c)
          \/ ImportCommit(c)
          \/ ImportRollback(c)
          \/ PluginExport(c)
          \/ ClearExecute(c)
  \/ /\ UNCHANGED mgrState
     /\ UNCHANGED <<tables, inTransaction, txSnapshot, foreignKeys, clock,
                    nextId>>
     /\ \E c \in Callers :
          \/ /\ AllIdle
             /\ \/ GetSchemaVersionCall(c)
                \/ VerifySchemaIntegrityCall(c)
          \/ GetSchemaVersionReturn(c)
          \/ VerifyLookup(c)

SpecGuards == FreshInit /\ [][GuardedNext]_vars

\* ---------------------------------------------------------------------
\* initialize, getConnection and close overlapping: two callers issue their
\* calls without awaiting each other's, so close() can run while an
\* initialization is in flight
\* ---------------------------------------------------------------------

Racers == {1, 2}

\* the continuation of caller p after an await: the plugin call it issued
\* has returned or thrown, or the promise it waits on has settled
RaceResume(p) ==
  /\ UNCHANGED storeVars
  /\ \/ InitializeSteps(p)
     \/ GetConnectionStarterResumes(p)
     \/ GetConnectionWaiterResumes(p)
     \/ CloseAfterClose(p)

RaceNext ==
  \E p \in Racers :
    \/ UNCHANGED storeVars /\ \E name \in {""} : InitializeCall(p, name)
    \/ UNCHANGED storeVars /\ GetConnectionCall(p)
    \/ UNCHANGED storeVars /\ CloseCall(p)
    \/ RaceResume(p)

SpecRace == FreshInit /\ [][RaceNext]_vars

\* getConnection and close overlapping, initialize() reached only through
\* getConnection: two callers of getConnection, so that one can wait on the
\* initialization the other started, and a third caller that closes
MaxWaits == 2

Closer == 3

LazyRaceNext ==
  \/ \E p \in Racers :
       /\ calls < MaxWaits
       /\ UNCHANGED storeVars
       /\ GetConnectionCall(p)
  \/ UNCHANGED storeVars /\ CloseCall(Closer)
  \/ \E p \in Racers \cup {Closer} : RaceResume(p)

\* every plugin call that was issued returns or throws, and a continuation
\* whose promise has settled is run: each await of each caller resumes
RaceFairness == \A p \in Racers \cup {Closer} : WF_vars(RaceResume(p))

SpecRaceFair == FreshInit /\ [][LazyRaceNext]_vars /\ RaceFairness

\* ------------------------------------------------- DatabaseManager claims
InitPcs == {"createConnection", "open", "createTables", "createIndexes",
            "insertVersion"}

\* the callers whose run of initialize is in flight
RunningInit == {p \in Procs : proc[p].pc \in InitPcs}

\* C1: overlapping initialize and getConnection calls on a manager that is
\* not yet initialized create and open the underlying store exactly once,
\* every call resolves, and every getConnection resolves with a usable (open)
\* handle.  Plugin failures are left out of the claim's scope.
C1_StoreOpenedOnce ==
  failCount = 0 =>
    /\ createCount <= 1
    /\ openCount <= 1
    /\ \A o \in outcomes :
         /\ o.status = "ok"
         /\ o.op = "getConnection" => o.handle \in openHandles

\* C2: when only getConnection is called, at most one run of initialize is
\* in flight, it is the one stored in initializationPromise, every caller
\* that waits is waiting for that same stored operation, and without a
\* plugin failure the store is created at most once.
C2_SingleFlight ==
  /\ Cardinality(RunningInit) <= 1
  /\ \A p \in RunningInit :
       /\ initializationPromise = proc[p].prom
       /\ promState[proc[p].prom] = "pending"
  /\ \A p \in Procs :
       (proc[p].pc = "awaitInit" /\ promState[proc[p].prom] = "pending")
         => /\ proc[p].prom = initializationPromise
            /\ \E q \in RunningInit : proc[q].prom = proc[p].prom
  /\ failCount = 0 => createCount <= 1

\* C2 witness: one caller runs initialize while two others wait for it
C2_Witness ==
  /\ RunningInit # {}
  /\ Cardinality({p \in Procs : proc[p].pc = "awaitInit"}) >= 2
  /\ createCount = 1


\* ------------------------------------------- WorkoutSessionStorage claims
\* the call of caller c is the latest call made, it was op and it has settled
Finished(c, op) ==
  rcall[c].op = op /\ rcall[c].pc = "done" /\ rcall[c].no = calls

\* C3: after deleteSession(S.id) succeeds the store holds no session row S,
\* no workout_exercises row whose sessionId is S.id and no sets row whose
\* exerciseId is one of the exercises S had.
C3_DeleteLeavesNoRows ==
  \A c \in Callers :
    (Finished(c, "deleteSession") /\ rcall[c].status = "ok") =>
      LET S == rcall[c].existing
      IN /\ S.id \notin Ids(tables.workout_sessions)
         /\ \A e \in tables.workout_exercises : e.sessionId # S.id
         /\ \A i \in DOMAIN S.exercises :
              \A r \in tables.sets : r.exerciseId # S.exercises[i].id

\* every id generateUUID handed out since the call of caller c began
RowsSince(c) ==
  {r \in tables.workout_sessions \cup tables.workout_exercises \cup tables.sets :
     r.id >= rcall[c].id}

\* the supplied exercises as they must be found in the stored session
Supplied(exercises) ==
  {[exerciseId |-> exercises[i].exerciseId,
    exerciseName |-> exercises[i].exerciseName,
    bodyPart |-> exercises[i].bodyPart, order |-> exercises[i].order,
    sets |-> {[weight |-> exercises[i].sets[j].weight,
               reps |-> exercises[i].sets[j].reps,
               completedAt |-> exercises[i].sets[j].completedAt,
               order |-> exercises[i].sets[j].order] :
                j \in DOMAIN exercises[i].sets}] :
     i \in DOMAIN exercises}

\* the exercises and sets stored for a session, without their generated ids
StoredFor(sessionId) ==
  {[exerciseId |-> e.exerciseId, exerciseName |-> e.exerciseName,
    bodyPart |-> e.bodyPart, order |-> e.order,
    sets |-> {[weight |-> r.weight, reps |-> r.reps,
               completedAt |-> r.completedAt, order |-> r.order] :
                r \in {x \in tables.sets : x.exerciseId = e.id}}] :
     e \in {x \in tables.workout_exercises : x.sessionId = sessionId}}

\* C5: createSession is all-or-nothing.  When BEGIN, an insert or COMMIT
\* fails the call rejects and no row written by it is in the store; when it
\* resolves the session row and all supplied exercises and sets are stored.
C5_CreateSessionAtomic ==
  \A c \in Callers :
    Finished(c, "createSession") =>
      /\ (rcall[c].status = "rejected" /\ rcall[c].failedAt # "readBack")
           => /\ RowsSince(c) = {}
              /\ ~inTransaction
      /\ rcall[c].status = "ok"
           => /\ \E r \in tables.workout_sessions :
                   /\ r.id = rcall[c].id
                   /\ r.date = rcall[c].input.date
                   /\ r.totalTime = rcall[c].input.totalTime
              /\ StoredFor(rcall[c].id) = Supplied(rcall[c].input.exercises)
              /\ Cardinality({e \in tables.workout_exercises :
                                e.sessionId = rcall[c].id})
                   = Len(rcall[c].input.exercises)

\* C5 witness: a createSession that had inserted the session, an exercise
\* and a set was rejected by the CHECK constraint on its second set
C5_Witness ==
  \E c \in Callers :
    /\ Finished(c, "createSession")
    /\ rcall[c].status = "rejected"
    /\ rcall[c].failedAt = "insertSet"
    /\ rcall[c].err = "constraint"
    /\ rcall[c].st = 2

\* C6: every successful updateSession stores an updatedAt strictly greater
\* than the updatedAt the session had immediately before the call.
C6_UpdatedAtAdvances ==
  \A c \in Callers :
    (Finished(c, "updateSession") /\ rcall[c].status = "ok") =>
      \E r \in tables.workout_sessions :
        /\ r.id = rcall[c].id
        /\ r.updatedAt > rcall[c].existing.updatedAt

\* folding of the ASCII letters, as the claim words it
LowerAscii(name) ==
  [i \in DOMAIN name |->
     IF name[i] >= 65 /\ name[i] <= 90 THEN name[i] + 32 ELSE name[i]]

\* the weights of all stored sets of the stored workout exercises whose name
\* equals exerciseName up to ASCII case
WeightsFor(exerciseName) ==
  LET lower == LowerAscii(exerciseName)
      named == {e.id : e \in {x \in tables.workout_exercises :
                                LowerAscii(x.exerciseName) = lower}}
  IN {r.weight : r \in {x \in tables.sets : x.exerciseId \in named}}

\* C10: between calls, getPreviousMaxWeight(name) is null when no stored
\* workout exercise (or none with a set) has that name up to ASCII case, and
\* otherwise the maximum weight over all sets of all such exercises.
C10_PreviousMaxWeight ==
  Quiescent =>
    \A n \in Names :
      LET ws == WeightsFor(n)
      IN GetPreviousMaxWeight(tables, n) = IF ws = {} THEN Null ELSE MaxOf(ws)

\* C10 witness: exercises of two sessions whose names differ only in case,
\* the heavier set belonging to the other spelling
C10_Witness ==
  /\ Quiescent
  /\ \E e1, e2 \in tables.workout_exercises :
       /\ e1.sessionId # e2.sessionId
       /\ e1.exerciseName = NameUpper
       /\ e2.exerciseName = NameLower
       /\ e2.maxWeight < e1.maxWeight
  /\ GetPreviousMaxWeight(tables, NameLower) = 80
  /\ GetPreviousMaxWeight(tables, NameKana) = Null


\* ------------------------------------------ ExerciseLibraryStorage claims
\* another stored library exercise has the pair the call of caller c supplied
PairTaken(c) ==
  \E r \in tables.exercises :
    /\ r.id # rcall[c].id
    /\ r.name = rcall[c].input.name
    /\ r.bodyPart = rcall[c].input.bodyPart

\* C4: at most one library exercise exists per (name, bodyPart) pair; a
\* createExercise whose pair is taken rejects, with the 'already exists'
\* error naming the name and the body part unless the engine itself failed,
\* and adds no row; a createExercise whose pair is free (the same name under
\* another body part included) is accepted unless the engine failed.
C4_UniquePair ==
  /\ \A a, b \in tables.exercises :
       (a.name = b.name /\ a.bodyPart = b.bodyPart) => a = b
  /\ \A c \in Callers :
       Finished(c, "createExercise") =>
         /\ PairTaken(c) =>
              /\ rcall[c].status = "rejected"
              /\ rcall[c].id \notin Ids(tables.exercises)
              /\ rcall[c].err \in {"alreadyExists", "io"}
              /\ rcall[c].err = "alreadyExists" =>
                   rcall[c].msg = <<"already exists", rcall[c].input.name,
                                    rcall[c].input.bodyPart>>
         /\ (~PairTaken(c) /\ rcall[c].err # "io") =>
              /\ rcall[c].status = "ok"
              /\ rcall[c].id \in Ids(tables.exercises)

\* C4 witness: a duplicate createExercise was rejected as 'already exists'
\* while the library holds the same name under two body parts
C4_Witness ==
  /\ \E c \in Callers :
       /\ Finished(c, "createExercise")
       /\ rcall[c].status = "rejected"
       /\ rcall[c].err = "alreadyExists"
       /\ PairTaken(c)
  /\ \E a, b \in tables.exercises : a.name = b.name /\ a.bodyPart # b.bodyPart


\* --------------------------------------------------------- backup claims
\* the texts of at most MaxLen tokens
Short(S) == {x \in S : Len(x) <= MaxLen}

\* v, or v , v, ... with up to n commas, over the values V
RECURSIVE CommaLists(_, _)
CommaLists(V, n) ==
  IF n = 0 THEN V
  ELSE LET P == CommaLists(V, n - 1)
       IN P \cup Short({a \o <<Tok(",")>> \o b : a \in P, b \in V})

\* the JSON values of nesting depth at most d, by the grammar of JSON
RECURSIVE JsonValues(_)
JsonValues(d) ==
  IF d = 0 THEN {<<Tok("null")>>, <<Tok("["), Tok("]")>>} \cup Backups
  ELSE LET V == JsonValues(d - 1)
       IN V \cup Short({<<Tok("[")>> \o e \o <<Tok("]")>> :
                          e \in CommaLists(V, MaxLen)})

WellFormedJson == JsonValues(MaxLen)

\* C7 as stated: importFromJson with a string that is not well-formed JSON
\* (the empty string included) rejects with 'Invalid JSON format', never
\* begins a transaction and leaves every table as it was before the call.
C7_MalformedRejected ==
  \A c \in Callers :
    (Finished(c, "importFromJson") /\ rcall[c].input \notin WellFormedJson) =>
      /\ rcall[c].status = "rejected"
      /\ rcall[c].err = "invalidJson"
      /\ ~rcall[c].began
      /\ tables = rcall[c].before

\* C7 amended: on a manager that holds a handle, importFromJson with a string
\* that is not well-formed JSON rejects with 'Invalid JSON format'; on a
\* manager without a handle it rejects with 'Database not initialized'; in
\* both cases it never begins a transaction and leaves every table as it was.
C7_MalformedRejectedWithHandle ==
  \A c \in Callers :
    (Finished(c, "importFromJson") /\ rcall[c].input \notin WellFormedJson) =>
      /\ rcall[c].status = "rejected"
      /\ rcall[c].err = IF db # 0 THEN "invalidJson" ELSE "notInitialized"
      /\ ~rcall[c].began
      /\ ~inTransaction
      /\ tables = rcall[c].before

\* C7 witness: the empty string was rejected as invalid JSON on a manager with
\* a handle and a store that holds rows
C7_Witness ==
  \E c \in Callers :
    /\ Finished(c, "importFromJson")
    /\ db # 0
    /\ rcall[c].input = <<>>
    /\ rcall[c].err = "invalidJson"
    /\ tables.workout_sessions # {}

\* C8: when importFromJson is given well-formed JSON and fails after its
\* transaction has begun, the transaction is rolled back and not committed,
\* the call rejects with 'Failed to import database' and the store equals the
\* store before the call.
C8_FailedImportRolledBack ==
  \A c \in Callers :
    (Finished(c, "importFromJson") /\ rcall[c].began
       /\ rcall[c].status # "ok") =>
      /\ rcall[c].input \in WellFormedJson
      /\ rcall[c].status = "rejected"
      /\ rcall[c].err = "importFailed"
      /\ ~inTransaction
      /\ tables = rcall[c].before

\* C8 witness: the import of a backup that differs from the store failed in
\* the plugin after the transaction had begun, on a store that holds rows
C8_Witness ==
  \E c \in Callers :
    /\ Finished(c, "importFromJson")
    /\ rcall[c].began
    /\ rcall[c].status = "rejected"
    /\ rcall[c].failedAt = "pluginImport"
    /\ IsJsonSQLite(rcall[c].input)
    /\ rcall[c].input[2].v.tables # rcall[c].before
    /\ rcall[c].before.workout_sessions # {}

\* ---------------------------------------------------------------------
\* C11: updateSession, deleteSession, updateExercise and deleteExercise
\* called with an id that names no row of their table reject with a
\* not-found error (or with the engine's error when the look-up itself
\* failed) and leave every table as it was; getSessionById and
\* getExerciseById called with such an id resolve with null.
\* ---------------------------------------------------------------------

SessionIdMethods == {"updateSession", "deleteSession"}

ExerciseIdMethods == {"updateExercise", "deleteExercise"}

NamesNoRow(c) ==
  \/ /\ rcall[c].op \in SessionIdMethods \cup {"getSessionById"}
     /\ \A r \in rcall[c].before.workout_sessions : r.id # rcall[c].id
  \/ /\ rcall[c].op \in ExerciseIdMethods \cup {"getExerciseById"}
     /\ \A r \in rcall[c].before.exercises : r.id # rcall[c].id

C11_UnknownIdRejected ==
  \A c \in Callers :
    (rcall[c].pc = "done" /\ rcall[c].no = calls /\ NamesNoRow(c)) =>
       /\ tables = rcall[c].before
       /\ rcall[c].op \in SessionIdMethods \cup ExerciseIdMethods =>
            /\ rcall[c].status = "rejected"
            /\ rcall[c].err \in {"notFound", "io"}
            /\ rcall[c].err = "io" =>
                 rcall[c].failedAt \in {"readExisting", "libReadExisting"}
       /\ rcall[c].op \in {"getSessionById", "getExerciseById"} =>
            \/ rcall[c].status = "ok" /\ ~rcall[c].result.found
            \/ rcall[c].status = "rejected" /\ rcall[c].err = "io"

\* C11 witness: an update of a session that an earlier call deleted was
\* rejected as not found
C11_Witness ==
  \E c \in Callers :
    /\ Finished(c, "updateSession")
    /\ NamesNoRow(c)
    /\ rcall[c].id \in Ids(SeedHistory.workout_sessions)
    /\ rcall[c].input.hasExercises
    /\ rcall[c].status = "rejected"
    /\ rcall[c].err = "notFound"

\* ---------------------------------------------------------------------
\* C12: after a successful updateSession whose data supplies exercises, the
\* session's exercises and sets are exactly the supplied ones, stored under
\* new ids; none of the session's earlier exercise rows and none of their
\* set rows remain; the exercises and sets of other sessions are as before.
\* ---------------------------------------------------------------------

ExercisesOf(t, sessionId) ==
  {e \in t.workout_exercises : e.sessionId = sessionId}

SetsOf(t, exercises) ==
  {r \in t.sets : \E e \in exercises : r.exerciseId = e.id}

C12_ExercisesReplaced ==
  \A c \in Callers :
    (/\ Finished(c, "updateSession")
     /\ rcall[c].status = "ok"
     /\ rcall[c].input.hasExercises) =>
      LET old == ExercisesOf(rcall[c].before, rcall[c].id)
          others == rcall[c].before.workout_exercises \ old
      IN /\ StoredFor(rcall[c].id) = Supplied(rcall[c].input.exercises)
         /\ Cardinality(ExercisesOf(tables, rcall[c].id))
              = Len(rcall[c].input.exercises)
         /\ \A e \in ExercisesOf(tables, rcall[c].id) :
              e.id \notin Ids(rcall[c].before.workout_exercises)
         /\ \A e \in old : e.id \notin Ids(tables.workout_exercises)
         /\ SetsOf(tables, old) = {}
         /\ tables.workout_exercises \ ExercisesOf(tables, rcall[c].id) = others
         /\ SetsOf(tables, others) = SetsOf(rcall[c].before, others)

\* ---------------------------------------------------------------------
\* C13: a successful updateSession changes, of the session it names, only
\* the fields its data supplies (date, totalTime, exercises) and updatedAt;
\* id, createdAt and the fields not supplied keep their values, and so do
\* all other sessions with their exercises and sets and the library.
\* ---------------------------------------------------------------------

SessionRow(t, id) == CHOOSE r \in t.workout_sessions : r.id = id

C13_UpdateSessionFrame ==
  \A c \in Callers :
    (Finished(c, "updateSession") /\ rcall[c].status = "ok") =>
      LET data == rcall[c].input
          was == SessionRow(rcall[c].before, rcall[c].id)
          others == rcall[c].before.workout_exercises
                      \ ExercisesOf(rcall[c].before, rcall[c].id)
      IN /\ rcall[c].id \in Ids(tables.workout_sessions)
         /\ LET now == SessionRow(tables, rcall[c].id)
            IN /\ now.createdAt = was.createdAt
               /\ now.date = IF data.hasDate THEN data.date ELSE was.date
               /\ now.totalTime = IF data.hasTotalTime THEN data.totalTime
                                  ELSE was.totalTime
               /\ tables.workout_sessions \ {now}
                    = rcall[c].before.workout_sessions \ {was}
         /\ ~data.hasExercises =>
              /\ tables.workout_exercises = rcall[c].before.workout_exercises
              /\ tables.sets = rcall[c].before.sets
         /\ tables.workout_exercises \ ExercisesOf(tables, rcall[c].id) = others
         /\ SetsOf(tables, others) = SetsOf(rcall[c].before, others)
         /\ tables.exercises = rcall[c].before.exercises

\* C13 witness: an update that supplied date and totalTime but no exercises
\* succeeded on a session that has exercises, next to another session
C13_Witness ==
  \E c \in Callers :
    /\ Finished(c, "updateSession")
    /\ rcall[c].status = "ok"
    /\ rcall[c].input.hasDate
    /\ ~rcall[c].input.hasExercises
    /\ ExercisesOf(tables, rcall[c].id) # {}
    /\ \E r \in tables.workout_sessions :
         r.id # rcall[c].id /\ ExercisesOf(tables, r.id) # {}

\* ---------------------------------------------------------------------
\* C14: updateExercise rejects with the 'already exists' error (or the
\* engine's own error) and leaves the library as it was when the name and
\* body part the entry would have are those of a different entry; when the
\* pair is the entry's own or is used by no other entry the update succeeds
\* unless the engine failed.
\* ---------------------------------------------------------------------

ResultingName(c) ==
  IF rcall[c].input.hasName THEN rcall[c].input.name
  ELSE (CHOOSE r \in rcall[c].before.exercises : r.id = rcall[c].id).name

ResultingBodyPart(c) ==
  IF rcall[c].input.hasBodyPart THEN rcall[c].input.bodyPart
  ELSE (CHOOSE r \in rcall[c].before.exercises : r.id = rcall[c].id).bodyPart

PairOfAnother(c) ==
  \E r \in rcall[c].before.exercises :
    /\ r.id # rcall[c].id
    /\ r.name = ResultingName(c)
    /\ r.bodyPart = ResultingBodyPart(c)

C14_UpdateKeepsPairUnique ==
  \A c \in Callers :
    (/\ Finished(c, "updateExercise")
     /\ rcall[c].id \in Ids(rcall[c].before.exercises)) =>
      /\ PairOfAnother(c) =>
           /\ rcall[c].status = "rejected"
           /\ rcall[c].err \in {"alreadyExists", "io"}
           /\ rcall[c].err = "alreadyExists" =>
                rcall[c].msg = <<"already exists", ResultingName(c),
                                 ResultingBodyPart(c)>>
           /\ tables = rcall[c].before
      /\ (~PairOfAnother(c) /\ rcall[c].err # "io") =>
           /\ rcall[c].status = "ok"
           /\ \E r \in tables.exercises :
                /\ r.id = rcall[c].id
                /\ r.name = ResultingName(c)
                /\ r.bodyPart = ResultingBodyPart(c)

\* C14 witness: renaming an entry to the name of another entry of the same
\* body part was rejected as 'already exists'
C14_Witness ==
  \E c \in Callers :
    /\ Finished(c, "updateExercise")
    /\ rcall[c].id \in Ids(rcall[c].before.exercises)
    /\ rcall[c].input.hasName
    /\ PairOfAnother(c)
    /\ rcall[c].status = "rejected"
    /\ rcall[c].err = "alreadyExists"

\* ---------------------------------------------------------------------
\* C15: a successful deleteExercise removes the library row it names and
\* nothing else: the workout_exercises rows are the same in number and in
\* exerciseName, bodyPart, maxWeight, order and sessionId, also those that
\* refer to the deleted entry, and the sets and sessions are as before.
\* ---------------------------------------------------------------------

History(t) ==
  {[id |-> e.id, sessionId |-> e.sessionId, exerciseName |-> e.exerciseName,
    bodyPart |-> e.bodyPart, maxWeight |-> e.maxWeight, order |-> e.order] :
     e \in t.workout_exercises}

C15_DeleteExerciseKeepsHistory ==
  \A c \in Callers :
    (Finished(c, "deleteExercise") /\ rcall[c].status = "ok") =>
      /\ tables.exercises
           = {r \in rcall[c].before.exercises : r.id # rcall[c].id}
      /\ rcall[c].id \in Ids(rcall[c].before.exercises)
      /\ Cardinality(tables.workout_exercises)
           = Cardinality(rcall[c].before.workout_exercises)
      /\ History(tables) = History(rcall[c].before)
      /\ tables.sets = rcall[c].before.sets
      /\ tables.workout_sessions = rcall[c].before.workout_sessions

\* C15 witness: a library entry that a stored workout exercise with a set
\* refers to was deleted on an engine that enforces foreign keys
C15_Witness ==
  \E c \in Callers :
    /\ Finished(c, "deleteExercise")
    /\ rcall[c].status = "ok"
    /\ foreignKeys
    /\ \E e \in rcall[c].before.workout_exercises :
         /\ e.exerciseId = rcall[c].id
         /\ \E r \in tables.sets : r.exerciseId = e.id

\* ---------------------------------------------------------------------
\* C16: markExerciseAsUsed with a name that no library entry has, letter
\* case of ASCII letters ignored, resolves and changes nothing; otherwise
\* it sets lastUsed of exactly one entry of that name to the time of the
\* call, the one created first when there are several, and leaves all other
\* entries as they were.
\* ---------------------------------------------------------------------

NameMatches(c) ==
  {r \in rcall[c].before.exercises :
     LowerAscii(r.name) = LowerAscii(rcall[c].input)}

C16_MarkFirstMatch ==
  \A c \in Callers :
    Finished(c, "markExerciseAsUsed") =>
      /\ rcall[c].status = "ok" \/ rcall[c].err = "io"
      /\ [tables EXCEPT !.exercises = {}]
           = [rcall[c].before EXCEPT !.exercises = {}]
      /\ (NameMatches(c) = {} \/ rcall[c].status # "ok") =>
           tables = rcall[c].before
      /\ (NameMatches(c) # {} /\ rcall[c].status = "ok") =>
           \E r \in NameMatches(c) :
             /\ \A m \in NameMatches(c) : r.id <= m.id
             /\ tables.exercises
                  = (rcall[c].before.exercises \ {r})
                      \cup {[r EXCEPT !.lastUsed = rcall[c].now]}
             /\ rcall[c].now <= clock

\* C16 witness: two entries have the name, in different letter case or
\* under different body parts, and the call marked one of them
C16_Witness ==
  \E c \in Callers :
    /\ Finished(c, "markExerciseAsUsed")
    /\ rcall[c].status = "ok"
    /\ Cardinality(NameMatches(c)) >= 2
    /\ tables # rcall[c].before

\* ---------------------------------------------------------------------
\* C17: a successful createSession stores its rows under ids of its own
\* making, whatever ids the caller put into the exercises and sets: the
\* ids are distinct from each other and from every id stored before, every
\* exercise row written has the new session's id as sessionId, every set
\* row written has the id of an exercise row written by the call as
\* exerciseId, and the session's createdAt equals its updatedAt.
\* ---------------------------------------------------------------------

AllRows(t) == t.workout_sessions \cup t.workout_exercises \cup t.sets

AllIds(t) == Ids(t.workout_sessions) \cup Ids(t.workout_exercises)
               \cup Ids(t.sets) \cup Ids(t.exercises)

C17_GeneratedIds ==
  \A c \in Callers :
    (Finished(c, "createSession") /\ rcall[c].status = "ok") =>
      LET old == rcall[c].before
          newExercises == tables.workout_exercises \ old.workout_exercises
          newSets == tables.sets \ old.sets
          written == AllRows(tables) \ AllRows(old)
      IN /\ tables.workout_sessions \ old.workout_sessions
              = {SessionRow(tables, rcall[c].id)}
         /\ SessionRow(tables, rcall[c].id).createdAt
              = SessionRow(tables, rcall[c].id).updatedAt
         /\ \A r \in written : r.id \notin AllIds(old)
         /\ \A r, q \in written : r.id = q.id => r = q
         /\ Cardinality(newExercises) = Len(rcall[c].input.exercises)
         /\ \A e \in newExercises : e.sessionId = rcall[c].id
         /\ \A x \in newSets : \E e \in newExercises : x.exerciseId = e.id
         /\ AllRows(old) \subseteq AllRows(tables)
         /\ rcall[c].result.id = rcall[c].id
         /\ \A i \in DOMAIN rcall[c].result.exercises :
              LET e == rcall[c].result.exercises[i]
              IN /\ e.sessionId = rcall[c].id
                 /\ e \in {[x EXCEPT !.sets = e.sets] :
                             x \in {[sets |-> <<>>] @@ y : y \in newExercises}}
                 /\ \A j \in DOMAIN e.sets : e.sets[j] \in newSets

\* C17 witness: a createSession whose exercises and sets carry the ids of
\* rows that are stored already succeeded with two exercises
C17_Witness ==
  \E c \in Callers :
    /\ Finished(c, "createSession")
    /\ rcall[c].status = "ok"
    /\ Len(rcall[c].input.exercises) = 2
    /\ \E i \in DOMAIN rcall[c].input.exercises :
         LET e == rcall[c].input.exercises[i]
         IN /\ e.id \in Ids(rcall[c].before.workout_exercises)
            /\ e.sessionId \in Ids(rcall[c].before.workout_sessions)
            /\ \E j \in DOMAIN e.sets :
                 e.sets[j].id \in Ids(rcall[c].before.sets)

\* ---------------------------------------------------------------------
\* C18: createSession succeeds for an exercise whose exerciseId is the id
\* of no library exercise, and the session it returns holds that exercise
\* with all its sets and the totalTime supplied.  Calls that lost a
\* statement to a failure of the engine are set aside.
\* ---------------------------------------------------------------------

\* the call ended with the error of a statement the engine lost, or of the
\* ROLLBACK that followed such a loss after COMMIT
EngineFailed(c) == rcall[c].err \in {"io", "noTransaction"}

NamesNoLibraryExercise(c, e) ==
  /\ e.exerciseId # Null
  /\ \A r \in rcall[c].before.exercises : r.id # e.exerciseId

C18_UnknownLibraryIdAccepted ==
  \A c \in Callers :
    (/\ Finished(c, "createSession")
     /\ ~EngineFailed(c)
     /\ \E i \in DOMAIN rcall[c].input.exercises :
          NamesNoLibraryExercise(c, rcall[c].input.exercises[i])
     /\ \A i \in DOMAIN rcall[c].input.exercises :
          \A j \in DOMAIN rcall[c].input.exercises[i].sets :
            /\ rcall[c].input.exercises[i].sets[j].weight >= 0
            /\ rcall[c].input.exercises[i].sets[j].reps >= 1) =>
      /\ rcall[c].status = "ok"
      /\ rcall[c].result.found
      /\ rcall[c].result.totalTime = rcall[c].input.totalTime
      /\ Len(rcall[c].result.exercises) = Len(rcall[c].input.exercises)
      /\ \A i \in DOMAIN rcall[c].input.exercises :
           \E k \in DOMAIN rcall[c].result.exercises :
             LET e == rcall[c].input.exercises[i]
                 s == rcall[c].result.exercises[k]
             IN /\ s.exerciseId = e.exerciseId
                /\ s.exerciseName = e.exerciseName
                /\ Len(s.sets) = Len(e.sets)
                /\ \A j \in DOMAIN e.sets :
                     /\ s.sets[j].weight = e.sets[j].weight
                     /\ s.sets[j].reps = e.sets[j].reps

\* ---------------------------------------------------------------------
\* C19: getAllSessions returns every stored session exactly once, later
\* dates first; each session comes with exactly its workout exercises in
\* ascending order index and each exercise with exactly its sets in
\* ascending order index; with no session stored the list is empty.
\* ---------------------------------------------------------------------

\* the sequence holds exactly the rows of the set, each once
ListsExactly(seq, rows) ==
  /\ Len(seq) = Cardinality(rows)
  /\ {seq[i].id : i \in DOMAIN seq} = Ids(rows)

AscendingOrder(seq) ==
  \A i, j \in DOMAIN seq : i < j => seq[i].order <= seq[j].order

\* the session object is the stored session with its own exercises and sets
WellHydrated(S) ==
  /\ \E r \in tables.workout_sessions :
       /\ r.id = S.id
       /\ r.date = S.date
       /\ r.totalTime = S.totalTime
       /\ r.createdAt = S.createdAt
       /\ r.updatedAt = S.updatedAt
  /\ ListsExactly(S.exercises, ExercisesOf(tables, S.id))
  /\ AscendingOrder(S.exercises)
  /\ \A i \in DOMAIN S.exercises :
       LET e == S.exercises[i]
       IN /\ \E x \in tables.workout_exercises :
               /\ x.id = e.id
               /\ x.sessionId = S.id
               /\ x.exerciseName = e.exerciseName
               /\ x.bodyPart = e.bodyPart
               /\ x.order = e.order
          /\ ListsExactly(e.sets, {r \in tables.sets : r.exerciseId = e.id})
          /\ \A j \in DOMAIN e.sets : e.sets[j] \in tables.sets
          /\ AscendingOrder(e.sets)

LaterDatesFirst(seq) ==
  \A i, j \in DOMAIN seq : i < j => seq[i].date >= seq[j].date

C19_GetAllSessions ==
  \A c \in Callers :
    Finished(c, "getAllSessions") =>
      /\ tables = rcall[c].before
      /\ rcall[c].status = "ok" \/ rcall[c].err = "io"
      /\ rcall[c].status = "ok" =>
           /\ ListsExactly(rcall[c].list, tables.workout_sessions)
           /\ LaterDatesFirst(rcall[c].list)
           /\ \A i \in DOMAIN rcall[c].list : WellHydrated(rcall[c].list[i])
           /\ tables.workout_sessions = {} => rcall[c].list = <<>>

\* C19 witness: two sessions of different dates were returned, one of them
\* with two exercises, one of which has two sets
C19_Witness ==
  \E c \in Callers :
    /\ Finished(c, "getAllSessions")
    /\ rcall[c].status = "ok"
    /\ Len(rcall[c].list) = 2
    /\ rcall[c].list[1].date # rcall[c].list[2].date
    /\ \E i \in DOMAIN rcall[c].list :
         /\ Len(rcall[c].list[i].exercises) = 2
         /\ \E k \in DOMAIN rcall[c].list[i].exercises :
              Len(rcall[c].list[i].exercises[k].sets) = 2

\* ---------------------------------------------------------------------
\* C20: getSessionsByDateRange(start, end) returns exactly the stored
\* sessions whose date is at or after start and at or before end, a session
\* dated exactly start or exactly end included, later dates first, each
\* with its exercises and sets.
\* ---------------------------------------------------------------------

C20_DateRangeInclusive ==
  \A c \in Callers :
    Finished(c, "getSessionsByDateRange") =>
      /\ tables = rcall[c].before
      /\ rcall[c].status = "ok" \/ rcall[c].err = "io"
      /\ rcall[c].status = "ok" =>
           /\ ListsExactly(rcall[c].list,
                           {r \in tables.workout_sessions :
                              /\ rcall[c].input.startDate <= r.date
                              /\ r.date <= rcall[c].input.endDate})
           /\ LaterDatesFirst(rcall[c].list)
           /\ \A i \in DOMAIN rcall[c].list : WellHydrated(rcall[c].list[i])

\* C20 witness: the range returned a session dated exactly its end and a
\* session dated exactly its start
C20_Witness ==
  \E c \in Callers :
    /\ Finished(c, "getSessionsByDateRange")
    /\ rcall[c].status = "ok"
    /\ rcall[c].input.startDate < rcall[c].input.endDate
    /\ Len(rcall[c].list) = 2
    /\ rcall[c].list[1].date = rcall[c].input.endDate
    /\ rcall[c].list[2].date = rcall[c].input.startDate

\* ---------------------------------------------------------------------
\* C21: getAllExercises returns every library entry and
\* getExercisesByBodyPart exactly the entries of the given body part, each
\* once, later lastUsed first and every entry without lastUsed after every
\* entry that has one.
\* ---------------------------------------------------------------------

UsedEntriesFirst(seq) ==
  \A i, j \in DOMAIN seq :
    i < j =>
      /\ seq[i].lastUsed = Null => seq[j].lastUsed = Null
      /\ (seq[i].lastUsed # Null /\ seq[j].lastUsed # Null)
           => seq[i].lastUsed >= seq[j].lastUsed

C21_MostRecentlyUsedFirst ==
  \A c \in Callers :
    (\/ Finished(c, "getAllExercises")
     \/ Finished(c, "getExercisesByBodyPart")) =>
      /\ tables = rcall[c].before
      /\ rcall[c].status = "ok" \/ rcall[c].err = "io"
      /\ rcall[c].status = "ok" =>
           /\ ListsExactly(rcall[c].list,
                 {r \in tables.exercises :
                    \/ rcall[c].op = "getAllExercises"
                    \/ r.bodyPart = rcall[c].input.bodyPart})
           /\ \A i \in DOMAIN rcall[c].list :
                rcall[c].list[i] \in tables.exercises
           /\ UsedEntriesFirst(rcall[c].list)

\* C21 witness: getExercisesByBodyPart returned an entry with lastUsed
\* before one without, while the library holds an entry of another body
\* part
C21_Witness ==
  \E c \in Callers :
    /\ Finished(c, "getExercisesByBodyPart")
    /\ rcall[c].status = "ok"
    /\ Len(rcall[c].list) = 2
    /\ rcall[c].list[1].lastUsed # Null
    /\ rcall[c].list[2].lastUsed = Null
    /\ \E r \in tables.exercises : r.bodyPart # rcall[c].input.bodyPart

\* ---------------------------------------------------------------------
\* C22: searchExercises(query) returns exactly the library entries whose
\* name contains query as a substring when ASCII letters are compared
\* without regard to case; the empty query returns the whole library; the
\* characters %, _ and \ of the query stand for themselves.
\* ---------------------------------------------------------------------

ContainsIgnoringCase(name, query) ==
  \E i \in 1..(Len(name) + 1) :
    /\ i + Len(query) - 1 <= Len(name)
    /\ LowerAscii(SubSeq(name, i, i + Len(query) - 1)) = LowerAscii(query)

C22_SearchIsLiteralSubstring ==
  \A c \in Callers :
    Finished(c, "searchExercises") =>
      /\ tables = rcall[c].before
      /\ rcall[c].status = "ok" \/ rcall[c].err = "io"
      /\ rcall[c].status = "ok" =>
           /\ ListsExactly(rcall[c].list,
                 {r \in tables.exercises :
                    ContainsIgnoringCase(r.name, rcall[c].input.query)})
           /\ \A i \in DOMAIN rcall[c].list :
                rcall[c].list[i] \in tables.exercises
           /\ rcall[c].input.query = <<>> =>
                Len(rcall[c].list) = Cardinality(tables.exercises)

\* C22 witness: a query holding a character LIKE treats specially returned
\* the entry whose name holds that character and not the other entries
C22_Witness ==
  \E c \in Callers :
    /\ Finished(c, "searchExercises")
    /\ rcall[c].status = "ok"
    /\ \E i \in DOMAIN rcall[c].input.query :
         rcall[c].input.query[i] \in {Percent, Underscore, Backslash}
    /\ Len(rcall[c].list) = 1
    /\ Cardinality(tables.exercises) = 3

\* ---------------------------------------------------------------------
\* C27: after a successful clearAllData on an initialized manager every
\* table of the store, schema_version included, holds no row.
\* ---------------------------------------------------------------------

C27_AllTablesEmpty ==
  \A c \in Callers :
    (Finished(c, "clearAllData") /\ rcall[c].status = "ok") =>
      /\ tables = EmptyTables
      /\ schemaVersionRows = {}

\* C27 as the code has it: after a successful clearAllData the four data
\* tables (sets, workout_exercises, workout_sessions, exercises) hold no
\* row, and schema_version holds the rows it held before.
C27_DataTablesEmpty ==
  \A c \in Callers :
    (Finished(c, "clearAllData") /\ rcall[c].status = "ok") =>
      /\ tables.sets = {}
      /\ tables.workout_exercises = {}
      /\ tables.workout_sessions = {}
      /\ tables.exercises = {}
      /\ schemaVersionRows = {SCHEMA_VERSION}

\* C27 witness: clearAllData succeeded on a store that held rows in all
\* four data tables
C27_Witness ==
  \E c \in Callers :
    /\ Finished(c, "clearAllData")
    /\ rcall[c].status = "ok"
    /\ rcall[c].before.sets # {}
    /\ rcall[c].before.workout_exercises # {}
    /\ rcall[c].before.workout_sessions # {}
    /\ rcall[c].before.exercises # {}

\* ---------------------------------------------------------------------
\* C23: close() releases the handle and leaves the manager not initialized
\* with no initialization recorded as in flight; close() on a manager that
\* holds no handle changes nothing and resolves; the initialize or
\* getConnection that follows a close starts a new initialization, and a
\* run that completes leaves an open handle, which getConnection returns.
\* ---------------------------------------------------------------------

\* the outcomes recorded by this step
NewOutcomes == outcomes' \ outcomes

\* a close() has returned and no call was made since
Closed ==
  /\ AllIdle
  /\ db = 0
  /\ \E o \in outcomes : o.op = "close"

C23_Step ==
  \A p \in Procs :
    /\ (proc[p].pc = "close" /\ proc'[p].pc = "idle") =>
         /\ db' = 0
         /\ ~isInitialized'
         /\ initializationPromise' = 0
         /\ failCount' = failCount =>
              /\ proc[p].handle \notin openHandles'
              /\ \A o \in NewOutcomes : o.status = "ok"
    /\ (db = 0 /\ proc' = proc /\ \E o \in NewOutcomes : o.op = "close") =>
         /\ \A o \in NewOutcomes : o.status = "ok"
         /\ UNCHANGED <<db, dbName, isInitialized, initializationPromise,
                        createCount, openCount, openHandles, tablesExist,
                        schemaVersionRows>>
    /\ (Closed /\ calls' = calls + 1) => createCount' = createCount + 1
    /\ (proc[p].pc = "insertVersion" /\ failCount' = failCount) =>
         /\ isInitialized'
         /\ db' = proc[p].handle
         /\ db' \in openHandles'
    /\ \A o \in NewOutcomes :
         (o.op = "getConnection" /\ o.status = "ok") =>
           /\ o.handle = db'
           /\ o.handle \in openHandles'

C23_CloseThenFreshStart == [][C23_Step]_vars

\* C23 witness: the manager was initialized, closed, and a later
\* getConnection has returned the open handle of a second initialization
C23_Witness ==
  /\ AllIdle
  /\ [op |-> "close", status |-> "ok", handle |-> 0] \in outcomes
  /\ createCount = 2
  /\ isInitialized
  /\ db = 2
  /\ openHandles = {2}
  /\ [op |-> "getConnection", status |-> "ok", handle |-> 2] \in outcomes

\* ---------------------------------------------------------------------
\* C24: initialize() called on a manager that is initialized and holds a
\* live handle returns at once: no connection is created or opened, the
\* schema creation is not run again, the handle and the database name are
\* left as they were, and the call resolves.
\* ---------------------------------------------------------------------

\* a step that issues initialize or getConnection increments `calls`; an
\* initialize that returns at once records its outcome in the same step
C24_Step ==
  (isInitialized /\ db # 0 /\ calls' = calls + 1) =>
     /\ UNCHANGED <<db, dbName, isInitialized, initializationPromise, proc,
                    createCount, openCount, openHandles, failCount,
                    tablesExist, schemaVersionRows>>
     /\ \A o \in NewOutcomes : o.status = "ok"
     /\ \E o \in outcomes' : o.op \in {"initialize", "getConnection"}

C24_InitializeTwiceIsNoOp == [][C24_Step]_vars

\* C24 witness: two calls of initialize have resolved, nothing else was
\* called, and one connection was created
C24_Witness ==
  /\ AllIdle
  /\ calls = 2
  /\ outcomes = {[op |-> "initialize", status |-> "ok", handle |-> 0]}
  /\ isInitialized
  /\ db = 1
  /\ createCount = 1
  /\ openCount = 1

\* ---------------------------------------------------------------------
\* C25: every getConnection that resolves between one completed
\* initialization and the next close() returns the same handle, whatever
\* initialize and getConnection calls overlap.  (No close() is called in
\* SpecOpen, so all resolved getConnection calls fall in one such period.)
\* ---------------------------------------------------------------------

C26_Step ==
  /\ schemaVersionRows \subseteq {SCHEMA_VERSION}
  /\ isInitialized => schemaVersionRows = {SCHEMA_VERSION}
  /\ \A p \in Procs :
       (proc[p].pc = "insertVersion" /\ failCount' = failCount) =>
         /\ isInitialized'
         /\ schemaVersionRows' = {SCHEMA_VERSION}
  /\ \A c \in Callers :
       (rcall[c].pc = "schemaVersion" /\ rcall'[c].status = "ok") =>
         IF schemaVersionRows = {}
         THEN rcall'[c].value = 0
         ELSE /\ rcall'[c].value \in schemaVersionRows
              /\ \A w \in schemaVersionRows : w <= rcall'[c].value

C26_OneVersionRow == [][C26_Step]_vars

\* C26 witness: the store went through two initializations with a close in
\* between, and getSchemaVersion has then returned the current version
C26_Witness ==
  /\ AllIdle
  /\ createCount = 2
  /\ failCount = 0
  /\ [op |-> "close", status |-> "ok", handle |-> 0] \in outcomes
  /\ isInitialized
  /\ schemaVersionRows = {SCHEMA_VERSION}
  /\ \E c \in Callers :
       /\ rcall[c].op = "getSchemaVersion"
       /\ rcall[c].status = "ok"
       /\ rcall[c].no = calls
       /\ rcall[c].value = SCHEMA_VERSION

\* getSchemaVersion has returned 0 for an empty schema_version table
C26_EmptyTableSeen ==
  \E c \in Callers :
    /\ rcall[c].op = "getSchemaVersion"
    /\ rcall[c].status = "ok"
    /\ rcall[c].value = 0

\* ---------------------------------------------------------------------
\* C28: verifySchemaIntegrity never throws; it returns true exactly when
\* all five required tables exist and false otherwise, a failed lookup
\* included.
\* ---------------------------------------------------------------------

AllRequiredTablesExist ==
  \A i \in DOMAIN RequiredTables : RequiredTables[i] \in ExistingTables

C28_NeverThrows ==
  \A c \in Callers :
    Finished(c, "verifySchemaIntegrity") =>
      /\ rcall[c].status = "ok"
      /\ rcall[c].value = TRUE => AllRequiredTablesExist
      /\ (rcall[c].value = FALSE /\ rcall[c].err = "none") =>
           ~AllRequiredTablesExist

\* C28 as the code has it: on a manager without a handle the call rejects
\* with 'Database not initialized'; on a manager that holds a handle it never
\* throws, returns true only when all five required tables exist, and
\* returns false when one is missing or a lookup fails.
C28_ThrowsOnlyWithoutHandle ==
  \A c \in Callers :
    Finished(c, "verifySchemaIntegrity") =>
      IF rcall[c].err = "notInitialized"
      THEN rcall[c].status = "rejected" /\ rcall[c].failedAt = "guard"
      ELSE /\ rcall[c].status = "ok"
           /\ rcall[c].value = TRUE => AllRequiredTablesExist
           /\ (rcall[c].value = FALSE /\ rcall[c].err = "none") =>
                ~AllRequiredTablesExist
           /\ rcall[c].err = "io" => rcall[c].value = FALSE

\* C28 witness: on a manager that holds an open handle over a store with
\* all its tables, verifySchemaIntegrity has looked up the five tables and
\* returned true
C28_Witness ==
  \E c \in Callers :
    /\ Finished(c, "verifySchemaIntegrity")
    /\ rcall[c].status = "ok"
    /\ rcall[c].table = Len(RequiredTables)
    /\ rcall[c].value = TRUE
    /\ db \in openHandles

\* ---------------------------------------------------------------------
\* C29: when the initialization started by a getConnection fails, that
\* getConnection and every getConnection that awaited the same
\* initialization reject, the manager is not initialized, the starter
\* clears the recorded initialization when it resumes, and a getConnection
\* called after that starts a new initialization.
\* ---------------------------------------------------------------------

RejectedGetConnection ==
  [op |-> "getConnection", status |-> "rejected", handle |-> 0]

\* an initialization has failed
SomeInitializationFailed ==
  \E i \in DOMAIN promState : promState[i] = "rejected"

C29_Step ==
  /\ (initializationPromise # 0 /\ promState[initializationPromise] = "rejected")
       => ~isInitialized
  /\ \A p \in Procs :
       /\ (/\ proc[p].pc \in {"gcResume", "awaitInit"}
           /\ proc'[p].pc = "idle"
           /\ promState[proc[p].prom] = "rejected") =>
             /\ RejectedGetConnection \in outcomes'
             /\ NewOutcomes \subseteq {RejectedGetConnection}
       /\ (proc[p].pc = "gcResume" /\ proc'[p].pc = "idle") =>
             initializationPromise' = 0
       /\ (/\ SomeInitializationFailed
           /\ initializationPromise = 0
           /\ ~isInitialized
           /\ proc[p].pc = "idle"
           /\ proc'[p].pc # "idle") =>
             /\ proc'[p].pc = "createConnection"
             /\ createCount' = createCount + 1
             /\ initializationPromise' \notin DOMAIN promState
             /\ promState'[initializationPromise'] = "pending"

C29_FailedInitializationRejectsAll == [][C29_Step]_vars

\* C29 witness: an initialization failed, its starter and a waiter have both
\* rejected, and a later getConnection has started a second initialization
C29_Witness ==
  /\ failCount = 1
  /\ outcomes = {RejectedGetConnection}
  /\ calls = 3
  /\ createCount = 2
  /\ initializationPromise = 3
  /\ promState[1] = "rejected"
  /\ promState[3] = "pending"
  /\ Cardinality({p \in Procs : proc[p].pc = "idle"}) = 2

\* ---------------------------------------------------------------------
\* C30: whatever the interleaving of overlapping repository calls, a call
\* that resolved has its writes in the store and a call that rejected has
\* none; in particular a ROLLBACK issued by one call does not remove the
\* row written by another call that reported success.  Engine failures are
\* left out of the claim's scope.  (No call of SpecOverlap deletes a library
\* exercise or a session created during the run.)
\* ---------------------------------------------------------------------

C30_OverlapIsolated ==
  failCount = 0 =>
    \A c \in Overlapping :
      rcall[c].pc = "done" =>
        /\ (rcall[c].op = "createExercise" /\ rcall[c].status = "ok") =>
             rcall[c].id \in Ids(tables.exercises)
        /\ (rcall[c].op = "createSession" /\ rcall[c].status = "ok") =>
             rcall[c].id \in Ids(tables.workout_sessions)
        /\ (rcall[c].op = "createSession" /\ rcall[c].status = "rejected") =>
             rcall[c].id \notin Ids(tables.workout_sessions)



\* ------------------------------------------------- write-path claims
\* the exercises a createSession or updateSession call asks to be stored
ExercisesToStore(cr) ==
  IF cr.op = "createSession" \/ cr.input.hasExercises
  THEN cr.input.exercises ELSE <<>>

\* the call of caller c supplied a set the CHECK constraints refuse
SuppliesRefusedSet(c) ==
  LET es == ExercisesToStore(rcall[c])
  IN \E i \in 1..Len(es) : \E j \in 1..Len(es[i].sets) :
       es[i].sets[j].weight < 0 \/ es[i].sets[j].reps < 1

\* C31: every stored set has weight >= 0 and reps >= 1; a createSession or
\* updateSession that supplies a set with a negative weight or with reps
\* below 1 rejects, with a constraint error unless the engine itself failed,
\* and no such set is stored.
C31_SetChecks ==
  /\ \A r \in tables.sets : r.weight >= 0 /\ r.reps >= 1
  /\ \A c \in Callers :
       ((Finished(c, "createSession") \/ Finished(c, "updateSession"))
          /\ rcall[c].failedAt # "readExisting"
          /\ SuppliesRefusedSet(c))
         => /\ rcall[c].status = "rejected"
            /\ ~EngineFailed(c) => rcall[c].err = "constraint"

\* C31 witness: an updateSession that supplied a set of negative weight was
\* refused by the CHECK constraint and the stored sets are those from before
C31_Witness ==
  \E c \in Callers :
    /\ Finished(c, "updateSession")
    /\ SuppliesRefusedSet(c)
    /\ rcall[c].err = "constraint"
    /\ rcall[c].failedAt = "insertSet"
    /\ rcall[c].input.exercises = <<NegativeExercise>>
    /\ tables = rcall[c].before
    /\ tables.sets # {}


\* C32: a successful createSession never lowers getPreviousMaxWeight(name)
\* for any name (a value that was present stays present and does not
\* decrease), and after it getPreviousMaxWeight is at least the weight of
\* every set the session supplied under that name; hence the value never
\* decreases along a sequence of successful createSession calls.
C32_PreviousMaxNeverDecreases ==
  \A c \in Callers :
    (Finished(c, "createSession") /\ rcall[c].status = "ok") =>
      /\ \A n \in Names :
           LET was == GetPreviousMaxWeight(rcall[c].before, n)
               is == GetPreviousMaxWeight(tables, n)
           IN was # Null => (is # Null /\ is >= was)
      /\ \A i \in 1..Len(rcall[c].input.exercises) :
           LET e == rcall[c].input.exercises[i]
               is == GetPreviousMaxWeight(tables, e.exerciseName)
           IN \A j \in 1..Len(e.sets) : is # Null /\ is >= e.sets[j].weight

\* C32 witness: a successful createSession with sets of 70 and 80 raised
\* the previous maximum of its exercise name, which was present and lower
C32_Witness ==
  \E c \in Callers :
    /\ Finished(c, "createSession")
    /\ rcall[c].status = "ok"
    /\ rcall[c].input.exercises[1] = HeavyExercise
    /\ GetPreviousMaxWeight(rcall[c].before, NameUpper) # Null
    /\ GetPreviousMaxWeight(rcall[c].before, NameUpper) < 80
    /\ GetPreviousMaxWeight(tables, NameUpper) = 80


\* C33: between calls, whatever createSession, updateSession, deleteSession,
\* createExercise, updateExercise and deleteExercise calls were made and
\* however they ended, every workout_exercises row refers to a stored
\* session and every sets row refers to a stored workout_exercises row.
C33_NoOrphanRows ==
  Quiescent =>
    /\ \A e \in tables.workout_exercises :
         e.sessionId \in Ids(tables.workout_sessions)
    /\ \A r \in tables.sets : r.exerciseId \in Ids(tables.workout_exercises)


\* the weights of the sets stored for workout exercise id
StoredWeights(id) == {r.weight : r \in {x \in tables.sets : x.exerciseId = id}}

\* C34: between calls, the maxWeight of each stored workout exercise is the
\* maximum weight among the sets stored for it, and is absent exactly when
\* no set is stored for it; a maxWeight supplied by the caller is not used.
C34_MaxWeightDerived ==
  Quiescent =>
    \A e \in tables.workout_exercises :
      LET ws == StoredWeights(e.id)
      IN e.maxWeight = IF ws = {} THEN Null ELSE MaxOf(ws)

\* C34 witness: a session was stored from exercises that each supplied a
\* maxWeight of their own: the one with sets of 70 and 80 is stored with
\* 80, the one without sets is stored without a maxWeight
C34_Witness ==
  /\ Quiescent
  /\ HeavyExercise.maxWeight = StaleMaxWeight
  /\ NoSetsExercise.maxWeight = StaleMaxWeight
  /\ \E c \in Callers :
       /\ rcall[c].status = "ok"
       /\ rcall[c].op \in {"createSession", "updateSession"}
       /\ rcall[c].input.exercises = <<HeavyExercise, NoSetsExercise>>
       /\ \E e1, e2 \in tables.workout_exercises :
            /\ e1.sessionId = rcall[c].id
            /\ e2.sessionId = rcall[c].id
            /\ e1.exerciseName = HeavyExercise.exerciseName
            /\ e1.maxWeight = 80
            /\ StoredWeights(e1.id) = {70, 80}
            /\ e2.exerciseName = NoSetsExercise.exerciseName
            /\ e2.maxWeight = Null
            /\ StoredWeights(e2.id) = {}


\* the statements updateSession issues between BEGIN and COMMIT
UpdateStatements ==
  {"deleteExercises", "insertExercise", "insertSet", "updateSession"}

\* C35: updateSession is all-or-nothing: when a statement issued after the
\* transaction began (deleting the old exercises, inserting an exercise or
\* a set, updating the session row) fails, the call rejects, no transaction
\* stays open, and the store (the session's date, totalTime and updatedAt,
\* its exercises and their sets, and every other row) is as it was when the
\* call was made.
C35_UpdateSessionAtomic ==
  \A c \in Callers :
    (Finished(c, "updateSession") /\ rcall[c].failedAt \in UpdateStatements)
      => /\ rcall[c].status = "rejected"
         /\ tables = rcall[c].before
         /\ GetSessionById(tables, rcall[c].id) = rcall[c].existing
         /\ ~inTransaction

\* C35 witness: an updateSession had deleted the old exercises and inserted
\* a new exercise and a set when its next insert failed; the session is as
\* it was
C35_Witness ==
  \E c \in Callers :
    /\ Finished(c, "updateSession")
    /\ rcall[c].failedAt = "insertSet"
    /\ rcall[c].st = 2
    /\ rcall[c].existing.found
    /\ rcall[c].existing.exercises # <<>>
    /\ rcall[c].input.date # rcall[c].existing.date
    /\ GetSessionById(tables, rcall[c].id) = rcall[c].existing


\* C39: in createSession and updateSession every BEGIN is followed by
\* exactly one of COMMIT or ROLLBACK: a call is about to issue ROLLBACK only
\* while the transaction it began is open, never after its COMMIT succeeded
\* (as when the read-back after the commit fails), and between calls no
\* transaction is open.
C39_OneCommitOrRollback ==
  /\ \A c \in Callers :
       (rcall[c].op \in {"createSession", "updateSession"}
          /\ rcall[c].pc = "rollback")
         => /\ inTransaction
            /\ rcall[c].failedAt # "readBack"
  /\ Quiescent => ~inTransaction


\* the library row with the given id
LibraryRow(t, id) == CHOOSE r \in t.exercises : r.id = id

\* C37: a successful updateExercise(id, data) gives each of name, bodyPart,
\* videoUrl and lastUsed the supplied value when one is supplied and leaves
\* it alone otherwise; id and createdAt keep their values, every other
\* library entry and every other table is unchanged, the entry as stored is
\* what the call returns, and with no field supplied the store is unchanged
\* and the entry is returned as it was.
C37_UpdateExerciseFrame ==
  \A c \in Callers :
    (Finished(c, "updateExercise") /\ rcall[c].status = "ok") =>
      LET data == rcall[c].input
          old == LibraryRow(rcall[c].before, rcall[c].id)
          new == LibraryRow(tables, rcall[c].id)
      IN /\ rcall[c].id \in Ids(rcall[c].before.exercises)
         /\ rcall[c].id \in Ids(tables.exercises)
         /\ new.id = old.id
         /\ new.createdAt = old.createdAt
         /\ new.name = IF data.hasName THEN data.name ELSE old.name
         /\ new.bodyPart = IF data.hasBodyPart THEN data.bodyPart
                           ELSE old.bodyPart
         /\ new.videoUrl = IF data.hasVideoUrl THEN data.videoUrl
                           ELSE old.videoUrl
         /\ new.lastUsed = IF data.hasLastUsed THEN data.lastUsed
                           ELSE old.lastUsed
         /\ tables.exercises \ {new} = rcall[c].before.exercises \ {old}
         /\ [tables EXCEPT !.exercises = {}]
              = [rcall[c].before EXCEPT !.exercises = {}]
         /\ rcall[c].result = GetExerciseById(tables, rcall[c].id)
         /\ ~HasUpdates(data) =>
              /\ tables = rcall[c].before
              /\ rcall[c].result = rcall[c].existing

\* C37 witness: an updateExercise that supplied only videoUrl and lastUsed
\* succeeded on a library of several entries, and the entry kept its name
\* and body part
C37_Witness ==
  \E c \in Callers :
    /\ Finished(c, "updateExercise")
    /\ rcall[c].status = "ok"
    /\ rcall[c].input.hasVideoUrl
    /\ ~rcall[c].input.hasName
    /\ Cardinality(tables.exercises) > 1
    /\ LibraryRow(tables, rcall[c].id).videoUrl = rcall[c].input.videoUrl
    /\ LibraryRow(tables, rcall[c].id).videoUrl
         # LibraryRow(rcall[c].before, rcall[c].id).videoUrl
    /\ LibraryRow(tables, rcall[c].id).name
         = LibraryRow(rcall[c].before, rcall[c].id).name

\* C37 witness for the empty update: updateExercise with no field supplied
\* succeeded
C37_EmptyUpdateSeen ==
  \E c \in Callers :
    /\ Finished(c, "updateExercise")
    /\ rcall[c].status = "ok"
    /\ ~HasUpdates(rcall[c].input)


\* --------------------------------------------- overlapping manager calls
\* C38: under any interleaving of initialize, getConnection and close,
\* close during an initialization in flight included, isInitialized is
\* true only while the manager holds a handle.
C38_InitializedImpliesHandle == isInitialized => db # 0

\* C36: when every plugin call returns or throws and every settled await
\* resumes, each getConnection call ends: it resolves or rejects, also when
\* it waits on an initialization in flight that fails or during which
\* close() is called.
C36_GetConnectionEnds ==
  \A p \in Racers :
    (proc[p].op = "getConnection" /\ proc[p].pc # "idle")
      ~> (proc[p].pc = "idle")

\* C36 witness: a getConnection call waits on an initialization that was
\* started by another call and has been rejected although no plugin call
\* failed: close() ran while it was in flight
C36_Witness ==
  \E p \in Racers :
    /\ proc[p].pc = "awaitInit"
    /\ promState[proc[p].prom] = "rejected"
    /\ failCount = 0
    /\ \E o \in outcomes : o.op = "close"

\* a getConnection call waits on an initialization that failed in the plugin
C36_FailedInitSeen ==
  \E p \in Racers :
    /\ proc[p].pc = "awaitInit"
    /\ promState[proc[p].prom] = "rejected"
    /\ failCount > 0
    /\ \A o \in outcomes : o.op # "close"


\* ------------------------------------------------ methods without a handle
GuardedMethods ==
  {"clearAllData", "exportToJson", "importFromJson", "getSchemaVersion",
   "verifySchemaIntegrity"}

\* caller c issues a call in this step
CallIssued(c) == rcall[c].pc \in {"idle", "done"} /\ rcall'[c] # rcall[c]

C40_Step ==
  \A c \in Callers :
    (CallIssued(c) /\ db = 0) =>
      /\ rcall'[c].op \in GuardedMethods
      /\ rcall'[c].pc = "done"
      /\ rcall'[c].status = "rejected"
      /\ rcall'[c].err = "notInitialized"
      /\ UNCHANGED <<mgrState, tables, inTransaction, txSnapshot>>

\* C40: clearAllData, exportToJson, importFromJson, getSchemaVersion and
\* verifySchemaIntegrity, called while the manager holds no handle (never
\* initialized, or closed), reject at once with 'Database not initialized';
\* the call starts no initialization and leaves the manager (handle,
\* isInitialized, initializationPromise, connections created and opened)
\* and the store as they were.
C40_NoHandleRejects == [][C40_Step]_vars

\* C40 witness: on a manager that was initialized and then closed,
\* importFromJson of a well-formed backup was rejected by the guard
C40_Witness ==
  \E c \in Callers :
    /\ rcall[c].op = "importFromJson"
    /\ rcall[c].pc = "done"
    /\ rcall[c].err = "notInitialized"
    /\ rcall[c].input \in Backups
    /\ db = 0
    /\ ~isInitialized
    /\ createCount = 1
    /\ tablesExist
    /\ \E o \in outcomes : o.op = "close" /\ o.status = "ok"

\* a guarded method was rejected on a manager that was never initialized
C40_FreshSeen ==
  \E c \in Callers :
    /\ rcall[c].op \in GuardedMethods
    /\ rcall[c].err = "notInitialized"
    /\ createCount = 0

====
